---- MODULE Spec2Model ----
(***************************************************************************)
(* Model of dbrownell_Common.ExecuteTasks: the entry points ExecuteTasks   *)
(* and TransformTasksEx (TransformTasks is TransformTasksEx with a Prepare *)
(* that wraps the transform), the task runner _ExecuteTask, the result     *)
(* aggregator of _GenerateExperienceData and the DoneManager scopes the    *)
(* batch runs in.  Threads interleave at the granularity of the runner's   *)
(* steps; every call of user code (Init, Prepare, Execute / transform) is  *)
(* an input drawn when the call is made.  Assertions are enabled (the      *)
(* default interpreter mode).                                              *)
(***************************************************************************)
EXTENDS Integers, Sequences, FiniteSets, TLC

\* ------------------------------------------------------------------ bounds
MaxTasks == 3
MaxCpu == 2
MaxThreads == 2
MaxFaultyTasks == 2
MaxQueued == 2
MaxSteppedTasks == 2
MaxLen == 6
MaxScopes == 3

\* --------------------------------------------------------------- constants
CATASTROPHIC_TASK_FAILURE_RESULT == -123

\* Optional[int] arguments: None is kept apart from every int the code accepts.
NoneInt == -999

\* The batch description handed to the entry point.
desc == "Testing..."

\* The step count a Prepare declares when it declares one.
NumSteps == 5

\* The return code of the CompleteTransformResult of the tests.
WarningCode == 12345

\* ThreadPoolExecutor's default max_workers: min(32, cpu_count + 4).
DefaultMaxWorkers(cpu) == IF cpu + 4 < 32 THEN cpu + 4 ELSE 32

Min(a, b) == IF a < b THEN a ELSE b

\* ------------------------------------------------------------------ inputs
ExperienceTypes == {"Simple", "ProgressBar"}
Entries == {"ExecuteTasks", "TransformTasksEx", "YieldQueueExecutor"}

\* What user code can raise.
ExceptionKinds == {"TransformError", "Exception", "KeyboardInterrupt"}

\* Result codes an Execute callable carries.
ReturnCodes == {-1, 0, 1}

\* execution_lock instances the caller may share between tasks.
Locks == {"lockA", "lockB"}
NoLock == "None"

VARIABLES
    args,            \* the entry point's arguments
    tasks,           \* tasks[i]: the TaskData of task i
    pc,              \* pc[i]: where task i's _ExecuteTask stands
    pending,         \* pending[i]: the exception in flight in task i's runner
    thrown,          \* thrown[i]: what user code raised in task i, and in which call
    returned,        \* returned[i]: the result code task i's Execute returned
    callbacks,       \* callbacks[i]: calls of on_task_data_complete_func for task i
    runs,            \* runs[i]: calls of _ExecuteTask for task i
    summary,         \* summary[i]: the summary lines written for task i
    all_results,     \* the value-returning scheduler's output slots
    lock_holder,     \* lock_holder[l]: the task holding lock l, or -1
    files,           \* log files that exist on disk
    total_progress,  \* the 'Total Progress' row and the counts on their way to it
    success_count, warning_count, error_count,
    execute_dm,      \* execute_dm.result, the nested DoneManager scope's result
    dm,              \* dm.result, the caller's DoneManager result
    dispatch,        \* how the batch is scheduled, and the pool size
    task_index,      \* compressed dispatch: the shared cursor
    worker,          \* compressed / queue dispatch: worker[t] is thread t's loop state
    num_steps,       \* num_steps[i]: the step count task i's Prepare declared
    internal_status, \* internal_status[i]: task i's status handle
    bounded,         \* a call of TextwrapEx.BoundedLJust and what it returned
    nested,          \* the nested DoneManager scopes a parent scope has run
    queue,           \* YieldQueueExecutor: the enqueued tasks no worker has taken
    quit_event,      \* YieldQueueExecutor: quit_event.is_set()
    temp_directory,  \* the batch's temporary log directory
    main             \* the calling thread: position and outcome of the call

vars == <<args, tasks, pc, pending, thrown, returned, callbacks, runs, summary,
          all_results, lock_holder, files, success_count, warning_count,
          error_count, execute_dm, dm, dispatch, task_index, worker, queue,
          quit_event, num_steps, internal_status, bounded, nested, temp_directory,
          total_progress, main>>

\* The variables no step of a batch touches.
outside == <<bounded, nested>>

NumTasks == Cardinality(DOMAIN tasks)

\* ------------------------------------------------------------- data shapes
\* Optional[str] short descriptions: None, f"{x} failed", str(ex), or given by
\* the callable.
NoneDesc == [fmt |-> "None", arg |-> ""]
FailedDesc(x) == [fmt |-> "failed", arg |-> x]
StrDesc(message) == [fmt |-> "str", arg |-> message]
GivenDesc(text) == [fmt |-> "given", arg |-> text]

\* Paths of log files.
NoPath == [dir |-> "unset", n |-> 0]
TempLog(index) == [dir |-> "temp_directory", n |-> index]
InitLog(i) == [dir |-> "init_func", n |-> i]
FreshTempFile(i) == [dir |-> "CreateTempFileName", n |-> i]

\* Output slots.
NoneSlot == [kind |-> "None", v |-> 0]
ValueSlot(v) == [kind |-> "value", v |-> v]
ExceptionSlot(c) == [kind |-> "exception", v |-> c]

\* The caller's list: TaskData(str(x), x, execution_lock) for x in range(n).
\* attrs is the set of fields of the instance that have been assigned.
TaskData(x, lock) ==
    [display |-> ToString(x), context |-> <<x>>, execution_lock |-> lock,
     result |-> 0, short_desc |-> NoneDesc, log_filename |-> NoPath,
     attrs |-> {}]

NoThrow == [in |-> "none", kind |-> "none"]

\* A handler that catches TransformError only.
IsTransformError(e) == e = "TransformError"

\* Classes derived from Exception (KeyboardInterrupt derives from BaseException).
IsException(e) ==
    e \in {"TransformError", "Exception", "AssertionError", "AttributeError",
           "ValueError"}

\* ------------------------------------------------------- the callables
\* What a call of user code can do: return, or raise.
CallOutcomes == {"return"} \cup ExceptionKinds

\* What an Execute callable of an ExecuteTasks caller can do: return a result
\* code, return (code, short description), or raise; logs tells whether it
\* called status.Log meanwhile.  An Execute of kind "status" calls
\* status.SetTitle, status.OnProgress(None, text) and status.OnInfo before it
\* returns its code, one of kind "step" calls status.OnProgress(0, text).
ExecuteReturns(kinds, codes, logs) ==
    [kind : kinds, code : codes, ex : {"None"}, logs : logs]
ExecuteRaises(kinds) ==
    [kind : {"raise"}, code : {0}, ex : kinds, logs : {FALSE}]

\* What a transform of a TransformTasks caller can do: return a value, return
\* CompleteTransformResult(value, return_code, short_desc), or raise.
TransformValues == [kind : {"value"}, code : {0}, ex : {"None"}, logs : {FALSE}]
TransformCompletes ==
    [kind : {"complete"}, code : {-1, NoneInt, WarningCode}, ex : {"None"},
     logs : {FALSE}]

\* A caller is given by what each call of its callables may do and by the
\* keyword arguments it passes.  The callers of ExecuteTasks the model runs:
\* one whose Execute returns any result code, one that runs under the
\* ProgressBar experience, one whose tasks share locks, one whose callables
\* may raise anything.
ExecuteTasksCallers ==
    {[name |-> "codes", init_func |-> {"return"}, prepare_func |-> {"return"},
      execute_func |-> ExecuteReturns({"int"}, ReturnCodes, {FALSE})
                       \cup ExecuteReturns({"tuple"}, {2}, {TRUE}),
      experience_type |-> {"Simple"}, quiet |-> BOOLEAN,
      return_exceptions |-> {FALSE}, num_steps |-> {NoneInt},
      body |-> {"return"}],
     [name |-> "progress", init_func |-> {"return"},
      prepare_func |-> {"return"},
      execute_func |-> ExecuteReturns({"int"}, ReturnCodes, {FALSE}),
      experience_type |-> {"ProgressBar"}, quiet |-> BOOLEAN,
      return_exceptions |-> {FALSE}, num_steps |-> {NoneInt},
      body |-> {"return"}],
     [name |-> "locks", init_func |-> {"return"}, prepare_func |-> {"return"},
      execute_func |-> ExecuteReturns({"int"}, {0}, {FALSE})
                       \cup ExecuteRaises({"Exception"}),
      experience_type |-> {"Simple"}, quiet |-> {FALSE},
      return_exceptions |-> {FALSE}, num_steps |-> {NoneInt},
      body |-> {"return"}],
     [name |-> "faults", init_func |-> CallOutcomes,
      prepare_func |-> CallOutcomes,
      execute_func |-> ExecuteReturns({"int"}, {0, 1}, {FALSE})
                       \cup ExecuteRaises(ExceptionKinds),
      experience_type |-> ExperienceTypes, quiet |-> {FALSE},
      return_exceptions |-> {FALSE}, num_steps |-> {NoneInt},
      body |-> {"return"}],
     [name |-> "steps", init_func |-> {"return"}, prepare_func |-> {"return"},
      execute_func |-> ExecuteReturns({"int", "status", "step"}, {0}, {FALSE})
                       \cup ExecuteRaises({"Exception"}),
      experience_type |-> ExperienceTypes, quiet |-> {FALSE},
      return_exceptions |-> {FALSE}, num_steps |-> {NoneInt, NumSteps},
      body |-> {"return"}]}

\* The callers of TransformTasks the model runs (Prepare returns the
\* transform): one whose transform returns, one whose transform may raise.
TransformTasksCallers ==
    {[name |-> "values", init_func |-> {"return"}, prepare_func |-> {"return"},
      execute_func |-> TransformValues \cup TransformCompletes,
      experience_type |-> {"Simple"}, quiet |-> {FALSE},
      return_exceptions |-> {FALSE}, num_steps |-> {NoneInt},
      body |-> {"return"}],
     [name |-> "faults", init_func |-> {"return"}, prepare_func |-> {"return"},
      execute_func |-> TransformValues \cup ExecuteRaises(ExceptionKinds),
      experience_type |-> {"Simple"}, quiet |-> {FALSE},
      return_exceptions |-> BOOLEAN, num_steps |-> {NoneInt},
      body |-> {"return"}],
     [name |-> "steps", init_func |-> {"return"}, prepare_func |-> {"return"},
      execute_func |-> TransformValues,
      experience_type |-> {"ProgressBar"}, quiet |-> {FALSE},
      return_exceptions |-> {FALSE}, num_steps |-> {NoneInt, NumSteps},
      body |-> {"return"}]}

\* The callers of YieldQueueExecutor the model runs: the block's body
\* enqueues its tasks one after the other; an Execute returns a short
\* description or raises.  The body of the "body" caller does not come to its
\* end: it raises an Exception, before or after any of its Enqueue calls.
YieldQueueExecutorCallers ==
    {[name |-> "queue", init_func |-> {"return"}, prepare_func |-> {"return"},
      execute_func |-> ExecuteReturns({"str"}, {0}, {FALSE})
                       \cup ExecuteRaises({"Exception"}),
      experience_type |-> {"Simple"}, quiet |-> {FALSE},
      return_exceptions |-> {FALSE}, num_steps |-> {NoneInt},
      body |-> {"return"}],
     [name |-> "steps", init_func |-> {"return"}, prepare_func |-> {"return"},
      execute_func |-> ExecuteReturns({"str"}, {0}, {FALSE})
                       \cup ExecuteRaises({"Exception"}),
      experience_type |-> {"ProgressBar"}, quiet |-> {FALSE},
      return_exceptions |-> {FALSE}, num_steps |-> {NoneInt, NumSteps},
      body |-> {"return"}],
     [name |-> "body", init_func |-> {"return"}, prepare_func |-> {"return"},
      execute_func |-> ExecuteReturns({"str"}, {0}, {FALSE}),
      experience_type |-> {"Simple"}, quiet |-> {FALSE},
      return_exceptions |-> {FALSE}, num_steps |-> {NoneInt},
      body |-> {"Exception"}]}

\* ------------------------------------------------------------------- Init
\* The calls the model makes: the entry point, its keyword arguments, the
\* machine's cpu_count and the caller's callables.
ArgsSet ==
    UNION {{[entry |-> "ExecuteTasks", cpu_count |-> MaxCpu,
             max_num_threads |-> m, no_compress_tasks |-> FALSE,
             return_exceptions |-> FALSE, experience_type |-> e, quiet |-> q,
             caller |-> c] :
               m \in {NoneInt} \cup (1 .. MaxThreads),
               e \in c.experience_type, q \in c.quiet} :
           c \in ExecuteTasksCallers}
    \cup
    UNION {{[entry |-> "TransformTasksEx", cpu_count |-> p,
             max_num_threads |-> m, no_compress_tasks |-> nc,
             return_exceptions |-> re, experience_type |-> e, quiet |-> q,
             caller |-> c] :
               p \in 1 .. MaxCpu, m \in {NoneInt} \cup (1 .. MaxThreads),
               nc \in BOOLEAN, re \in c.return_exceptions,
               e \in c.experience_type, q \in c.quiet} :
           c \in TransformTasksCallers}
    \cup
    UNION {{[entry |-> "YieldQueueExecutor", cpu_count |-> MaxCpu,
             max_num_threads |-> m, no_compress_tasks |-> FALSE,
             return_exceptions |-> FALSE, experience_type |-> e, quiet |-> q,
             caller |-> c] :
               m \in {NoneInt, 1}, e \in c.experience_type, q \in c.quiet} :
           c \in YieldQueueExecutorCallers}

\* The execution_lock of each task: only the "locks" caller shares locks.
LockLayouts(n) ==
    IF args.caller.name = "locks"
    THEN [0 .. n - 1 -> {NoLock} \cup Locks]
    ELSE IF args.caller.name = "steps" /\ args.entry = "ExecuteTasks"
    THEN [0 .. n - 1 -> {NoLock, "lockA"}]
    ELSE [0 .. n - 1 -> {NoLock}]

\* The largest batch of a caller.
MaxBatch ==
    IF args.caller.name = "faults" THEN MaxFaultyTasks
    ELSE IF args.caller.name \in {"queue", "body"} THEN MaxQueued
    ELSE IF args.caller.name = "steps" THEN MaxSteppedTasks
    ELSE MaxTasks

\* The 'Total Progress' row of a batch of n tasks before its first update:
\* status is the (success, warning, error) triple the row shows (<< >>: the
\* empty status it is created with) and previous the one it showed before;
\* counts[i] are the counters the aggregator's return statement has read for
\* task i so far; had are the triples the three counters have gone through.
NoProgress(n) ==
    [status |-> << >>, previous |-> << >>,
     counts |-> [i \in 0 .. n - 1 |-> << >>],
     had |-> {<<0, 0, 0>>}]

\* No call of BoundedLJust is under way.
NoText == [pc |-> "none", value |-> << >>, length |-> 0, result |-> << >>,
           again |-> << >>]

\* No nested scope has been opened.
NoScopes == [open |-> FALSE, exited |-> 0, before |-> 0, child |-> 0]

Init ==
    /\ bounded = NoText
    /\ nested = NoScopes
    /\ args \in ArgsSet
    /\ \E n \in 0 .. MaxBatch :
         \E locks \in LockLayouts(n) :
           /\ tasks = [i \in 0 .. n - 1 |-> TaskData(i, locks[i])]
           /\ pc = [i \in 0 .. n - 1 |-> "pending"]
           /\ pending = [i \in 0 .. n - 1 |-> "None"]
           /\ thrown = [i \in 0 .. n - 1 |-> NoThrow]
           /\ returned = [i \in 0 .. n - 1 |-> 0]
           /\ callbacks = [i \in 0 .. n - 1 |-> 0]
           /\ runs = [i \in 0 .. n - 1 |-> 0]
           /\ summary = [i \in 0 .. n - 1 |-> << >>]
           /\ num_steps = [i \in 0 .. n - 1 |-> NoneInt]
           /\ internal_status = [i \in 0 .. n - 1 |-> [num_steps |-> NoneInt]]
           /\ total_progress = NoProgress(n)
           /\ all_results = [i \in 0 .. n - 1 |-> NoneSlot]
    /\ lock_holder = [l \in Locks |-> -1]
    /\ files = {}
    /\ success_count = 0
    /\ warning_count = 0
    /\ error_count = 0
    /\ execute_dm = 0
    /\ dm = 0
    /\ dispatch = [impl |-> "none", mode |-> "none", max_workers |-> 0]
    /\ task_index = 0
    /\ worker = << >>
    /\ queue = << >>
    /\ quit_event = FALSE
    /\ temp_directory = "none"
    /\ main = [pc |-> "call", exception |-> "None", value |-> << >>]

\* ------------------------------------------------- DoneManager scopes
\* DoneManager._CreateImpl: an Exception leaving a scope makes its result -1
\* unless it is negative already; then the exception is raised again.
ScopeResult(result, ex) ==
    IF IsException(ex) /\ result >= 0 THEN -1 ELSE result

\* A parent that takes every result of a child that is not 0.
BubbleNonZero(parent, child) == IF child # 0 THEN child ELSE parent

\* DoneManager._CreateNestedImpl: the result the parent has after the child exits.
Bubble(parent, child) ==
    IF (child < 0 /\ parent >= 0) \/ (child > 0 /\ parent = 0)
    THEN child ELSE parent

\* A WriteError that sets the result to -1 whatever it was.
WriteErrorResets(result) == -1

\* DoneManager.WriteError / WriteWarning with update_result.
WriteError(result) == IF result >= 0 THEN -1 ELSE result
WriteWarning(result) == IF result = 0 THEN 1 ELSE result

\* An OnExit that removes the directory whatever the batch's result.
OnExitRemoves(result, existing) == "removed"

\* An OnExit that looks at the batch's result only.
OnExitWhenClean(result, existing) ==
    IF result = 0 THEN "removed" ELSE "preserved"

\* _YieldTemporaryDirectory.OnExit.
OnExitTemporaryDirectory(result, existing) ==
    IF result = 0 \/ ~(\E f \in existing : f.dir = "temp_directory")
    THEN "removed" ELSE "preserved"

\* ------------------------------------------------------------- dispatch
\* TransformTasksEx: the effective thread count.
NumThreads(n, cpu_count, max_num_threads) ==
    LET num_threads == Min(n, cpu_count) IN
    IF max_num_threads # NoneInt /\ max_num_threads # 0
    THEN Min(num_threads, max_num_threads)
    ELSE num_threads

\* TransformTasksEx: the choice of impl_func.
ImplFunc(no_compress_tasks, num_threads, cpu_count) ==
    IF no_compress_tasks \/ num_threads < cpu_count
    THEN "_TransformNotCompressed"
    ELSE "_TransformCompressed"

\* ExecuteTasks: on the calling thread, or on a ThreadPoolExecutor.
ExecuteTasksMode(n, max_num_threads) ==
    IF max_num_threads = 1 \/ n = 1 THEN "sequential" ELSE "pool"

\* ThreadPoolExecutor(max_workers): the pool size; 0 or less is a ValueError.
PoolSize(max_workers, cpu_count) ==
    IF max_workers = NoneInt THEN DefaultMaxWorkers(cpu_count) ELSE max_workers

\* _TransformNotCompressed: the (task_index, context) wrapper and its removal.
WrapContexts(ts) ==
    [i \in DOMAIN ts |-> [ts[i] EXCEPT !.context = <<i, ts[i].context>>]]

\* An exit that leaves the wrappers in place.
KeepWrapped(ts) == ts

RestoreTaskContext(ts) ==
    [i \in DOMAIN ts |-> [ts[i] EXCEPT !.context = ts[i].context[2]]]

\* The scopes of a call unwind with exception ex ("None": a normal return):
\* the nested DoneManager scope, RestoreTaskContext, _YieldTemporaryDirectory.
Unwind(ex, impl, ts) ==
    LET child == ScopeResult(execute_dm, ex)
        parent == Bubble(dm, child)
    IN  /\ execute_dm' = child
        /\ dm' = parent
        /\ tasks' = IF impl = "_TransformNotCompressed"
                    THEN RestoreTaskContext(ts) ELSE ts
        /\ temp_directory' = IF args.entry = "ExecuteTasks"
                             THEN temp_directory
                             ELSE OnExitTemporaryDirectory(parent, files)
        /\ main' = [pc |-> IF ex = "None" THEN "returned" ELSE "raised",
                    exception |-> ex,
                    value |-> IF ex = "None" /\ args.entry = "TransformTasksEx"
                              THEN all_results ELSE << >>]

\* ExecuteTasks(dm, desc, ts, init_func, max_num_threads = m) up to the point
\* where the tasks start to run.
EnterExecuteTasks(m, impl, ts) ==
    LET mode == ExecuteTasksMode(Cardinality(DOMAIN ts), m)
        size == PoolSize(m, args.cpu_count)
    IN  IF mode = "pool" /\ size <= 0
        THEN /\ Unwind("ValueError", impl, ts)
             /\ UNCHANGED <<dispatch, worker>>
        ELSE /\ dispatch' = [impl |-> impl, mode |-> mode,
                             max_workers |-> IF mode = "pool" THEN size ELSE 1]
             /\ tasks' = ts
             /\ temp_directory' = IF args.entry = "TransformTasksEx"
                                  THEN "created" ELSE temp_directory
             /\ main' = [main EXCEPT !.pc = "running"]
             /\ UNCHANGED <<execute_dm, dm, worker>>

\* YieldQueueExecutor: num_threads = max_num_threads or cpu_count().
QueueThreads(max_num_threads, cpu_count) ==
    IF max_num_threads # NoneInt /\ max_num_threads # 0
    THEN max_num_threads ELSE cpu_count

\* The call of the entry point, up to the point where the tasks start to run
\* (YieldQueueExecutor: up to the yield of Enqueue to the block's body).
Call ==
    /\ main.pc = "call"
    /\ IF args.entry = "ExecuteTasks"
       THEN EnterExecuteTasks(args.max_num_threads, "ExecuteTasks", tasks)
       ELSE IF args.entry = "YieldQueueExecutor"
       THEN LET num_threads == QueueThreads(args.max_num_threads,
                                            args.cpu_count)
            IN  /\ dispatch' = [impl |-> "YieldQueueExecutor",
                                mode |-> "queue", max_workers |-> num_threads]
                /\ worker' = [t \in 0 .. num_threads - 1 |->
                                [state |-> "idle", task |-> 0]]
                /\ temp_directory' = "created"
                /\ main' = [main EXCEPT !.pc = "body"]
                /\ UNCHANGED <<tasks, execute_dm, dm>>
       ELSE LET num_threads == NumThreads(NumTasks, args.cpu_count,
                                          args.max_num_threads)
                impl == ImplFunc(args.no_compress_tasks, num_threads,
                                 args.cpu_count)
            IN  IF impl = "_TransformNotCompressed"
                THEN EnterExecuteTasks(num_threads, impl, WrapContexts(tasks))
                ELSE IF ~(num_threads > 1)
                THEN \* assert num_threads > 1, before the nested scope opens
                     /\ main' = [main EXCEPT !.pc = "raised",
                                             !.exception = "AssertionError"]
                     /\ temp_directory' = OnExitTemporaryDirectory(dm, files)
                     /\ UNCHANGED <<tasks, execute_dm, dm, dispatch, worker>>
                ELSE /\ dispatch' = [impl |-> impl, mode |-> "compressed",
                                     max_workers |-> num_threads]
                     /\ worker' = [t \in 0 .. num_threads - 1 |->
                                     [state |-> "idle", task |-> 0]]
                     /\ temp_directory' = "created"
                     /\ main' = [main EXCEPT !.pc = "running"]
                     /\ UNCHANGED <<tasks, execute_dm, dm>>
    /\ UNCHANGED <<args, outside, total_progress, num_steps, internal_status, queue, quit_event, runs, summary, pc, pending, thrown, returned,
                   callbacks, all_results, lock_holder, files, success_count,
                   warning_count, error_count, task_index>>

\* ---------------------------------------------------------- _ExecuteTask
TaskIds == DOMAIN tasks

\* Tasks inside _ExecuteTask.
Active == {j \in TaskIds : pc[j] \notin {"pending", "done", "raised"}}

\* A loop that starts a task as soon as the tasks before it have started.
CanStartEager(i) == \A j \in TaskIds : j < i => pc[j] # "pending"

\* ExecuteTasks: the loop on the calling thread takes task i after task i - 1
\* has returned; a pool thread takes the oldest submitted work item.
CanStart(i) ==
    IF dispatch.mode = "sequential"
    THEN \A j \in TaskIds : j < i => pc[j] = "done"
    ELSE /\ \A j \in TaskIds : j < i => pc[j] # "pending"
         /\ Cardinality(Active) < dispatch.max_workers

\* A thread enters _ExecuteTask for task i (ExecuteTasks, both branches).
Start(i) ==
    /\ main.pc = "running"
    /\ dispatch.mode \in {"sequential", "pool"}
    /\ pc[i] = "pending"
    /\ CanStart(i)
    /\ pc' = [pc EXCEPT ![i] = "init"]
    /\ runs' = [runs EXCEPT ![i] = @ + 1]
    /\ UNCHANGED <<args, outside, total_progress, num_steps, internal_status, queue, quit_event, summary, tasks, pending, thrown, returned, callbacks,
                   all_results, lock_holder, files, success_count,
                   warning_count, error_count, execute_dm, dm, dispatch,
                   task_index, worker, temp_directory, main>>

\* A cursor that is read but not advanced.
SameCursor(c) == c

\* _TransformCompressed.Impl: task_index += 1 under task_index_lock.
NextCursor(c) == c + 1

\* _TransformCompressed.Impl: thread t takes the cursor's task under
\* task_index_lock and enters _ExecuteTask for it.
TakeTask(t) ==
    /\ main.pc = "running"
    /\ dispatch.mode = "compressed"
    /\ worker[t].state = "idle"
    /\ task_index # NumTasks
    /\ worker' = [worker EXCEPT ![t] = [state |-> "run", task |-> task_index]]
    /\ task_index' = NextCursor(task_index)
    /\ pc' = [pc EXCEPT ![task_index] = "init"]
    /\ runs' = [runs EXCEPT ![task_index] = @ + 1]
    /\ UNCHANGED <<args, outside, total_progress, num_steps, internal_status, queue, quit_event, summary, tasks, pending, thrown, returned, callbacks,
                   all_results, lock_holder, files, success_count,
                   warning_count, error_count, execute_dm, dm, dispatch,
                   temp_directory, main>>

\* _TransformCompressed.Impl: thread t finds the cursor at len(tasks) and
\* leaves its loop.
WorkerExit(t) ==
    /\ main.pc = "running"
    /\ dispatch.mode = "compressed"
    /\ worker[t].state = "idle"
    /\ task_index = NumTasks
    /\ worker' = [worker EXCEPT ![t].state = "exited"]
    /\ UNCHANGED <<args, outside, total_progress, num_steps, internal_status, queue, quit_event, runs, summary, tasks, pc, pending, thrown, returned, callbacks,
                   all_results, lock_holder, files, success_count,
                   warning_count, error_count, execute_dm, dm, dispatch,
                   task_index, temp_directory, main>>

\* The thread of the compressed pool that runs task i.
ThreadOf(i) ==
    CHOOSE t \in DOMAIN worker : worker[t].state = "run" /\ worker[t].task = i

\* A handler that gives every Exception the catastrophic result.
ClassifyCatastrophic(e, display) ==
    [result |-> CATASTROPHIC_TASK_FAILURE_RESULT, short_desc |-> FailedDesc(desc)]

\* The classification of an Exception by _ExecuteTask's handler.
Classify(e, display) ==
    IF e = "TransformError"
    THEN [result |-> 1, short_desc |-> FailedDesc(display)]
    ELSE [result |-> CATASTROPHIC_TASK_FAILURE_RESULT,
          short_desc |-> FailedDesc(desc)]

\* A handler that writes the error only to a log file it already has.
ExceptTaskKeepsLog(t, i, e) ==
    LET c == Classify(e, t.display) IN
    [t EXCEPT !.result = c.result,
              !.short_desc = c.short_desc,
              !.attrs = @ \cup {"result", "short_desc"}]

\* _ExecuteTask's `except Exception` clause: the TaskData it leaves.
ExceptTask(t, i, e) ==
    LET c == Classify(e, t.display) IN
    [t EXCEPT !.log_filename = IF "log_filename" \in t.attrs
                               THEN t.log_filename ELSE FreshTempFile(i),
              !.result = c.result,
              !.short_desc = c.short_desc,
              !.attrs = @ \cup {"log_filename", "result", "short_desc"}]

\* The finally block entered for task i with TaskData t, exception ex in
\* flight ("None": none), log lines buffered or not, and fs the files on
\* disk: the three assertions, the flush of the log lines, the execution
\* time.  Then the `with ExitStack(...)` block is left.
Finally(i, t, ex, logs, fs) ==
    LET ok == {"result", "short_desc", "log_filename"} \subseteq t.attrs IN
    /\ tasks' = [tasks EXCEPT
                   ![i] = IF ok THEN [t EXCEPT !.attrs = @ \cup {"execution_time"}]
                          ELSE t]
    /\ files' = IF ok /\ logs THEN fs \cup {t.log_filename} ELSE fs
    /\ pending' = [pending EXCEPT ![i] = IF ok THEN ex ELSE "AssertionError"]
    /\ pc' = [pc EXCEPT ![i] = "callback"]

\* User code called for task i raises e in call `where`: an Exception is
\* written to the log file and classified, KeyboardInterrupt is raised again;
\* then the finally block runs.
Raises(i, where, e) ==
    /\ thrown' = [thrown EXCEPT ![i] = [in |-> where, kind |-> e]]
    /\ IF IsException(e)
       THEN LET t == ExceptTask(tasks[i], i, e) IN
            Finally(i, t, "None", FALSE, files \cup {t.log_filename})
       ELSE Finally(i, tasks[i], e, FALSE, files)

\* A scheduler that names the log file after the task under every dispatch.
LogPerTask(i) == IF dispatch.impl = "ExecuteTasks" THEN InitLog(i) ELSE TempLog(i)

\* The log file name init_func returns for task i.
InitLogFilename(i) ==
    IF dispatch.impl = "ExecuteTasks" THEN InitLog(i)
    ELSE IF dispatch.impl = "_TransformNotCompressed"
    THEN TempLog(tasks[i].context[1])
    ELSE TempLog(ThreadOf(i))

\* task_data.log_filename, prepare_func = init_func(task_data.context)
InitStep(i) ==
    /\ pc[i] = "init"
    /\ \E outcome \in args.caller.init_func :
         IF outcome = "return"
         THEN /\ tasks' = [tasks EXCEPT ![i].log_filename = InitLogFilename(i),
                                        ![i].attrs = @ \cup {"log_filename"}]
              /\ pc' = [pc EXCEPT ![i] = "prepare"]
              /\ UNCHANGED <<pending, thrown, files>>
         ELSE Raises(i, "Init", outcome)
    /\ UNCHANGED <<args, outside, total_progress, num_steps, internal_status, queue, quit_event, runs, summary, returned, callbacks, all_results, lock_holder,
                   success_count, warning_count, error_count, execute_dm, dm,
                   dispatch, task_index, worker, temp_directory, main>>

\* SetNumSteps of the status handle of experience e: the ProgressBar handle
\* keeps the count, the Simple handle ignores the call.
SetNumStepsOf(e, status, n) ==
    IF e = "ProgressBar" THEN [status EXCEPT !.num_steps = n] ELSE status

SetNumSteps(status, n) == SetNumStepsOf(args.experience_type, status, n)

\* status.OnProgress(zero_based_step, text) on the handle of experience e:
\* the exception it raises ("None": it returns True).  The ProgressBar handle
\* asserts that a step index comes with a step count; the Simple handle
\* returns True.
OnProgress(e, status, zero_based_step) ==
    IF e = "ProgressBar" /\ zero_based_step # NoneInt
       /\ status.num_steps = NoneInt
    THEN "AssertionError" ELSE "None"

\* The calls an Execute of outcome o makes on its status handle, on the
\* handle of experience e: the exception that leaves them.  SetTitle and
\* OnInfo update the display (ProgressBar) or do nothing (Simple).
StatusCalls(e, status, o) ==
    IF o.kind = "step" THEN OnProgress(e, status, 0)
    ELSE IF o.kind = "status" THEN OnProgress(e, status, NoneInt)
    ELSE "None"

\* _ExecuteTask, with the lock held and before execute_func is called:
\* if num_steps is not None: internal_status.SetNumSteps(num_steps).
EnterExecute(status, n) ==
    IF n # NoneInt THEN SetNumSteps(status, n) ELSE status

\* An Execute whose exit resets the step count under every entry point.
LeaveExecuteResets(status) == SetNumSteps(status, NoneInt)

\* The exit of the Execute callable _ExecuteTask calls: the closure of
\* YieldQueueExecutor ends with OnExit, status.SetNumSteps(None).
LeaveExecute(status) ==
    IF dispatch.impl = "YieldQueueExecutor"
    THEN SetNumSteps(status, NoneInt) ELSE status

\* prepare_result = prepare_func(OnSimpleStatus), an execute callable or
\* (num_steps, execute callable); a task without a lock goes on into
\* Execute, a task with one announces "Waiting..." first.
PrepareStep(i) ==
    /\ pc[i] = "prepare"
    /\ \E outcome \in args.caller.prepare_func :
         IF outcome = "return"
         THEN \E n \in args.caller.num_steps :
              /\ num_steps' = [num_steps EXCEPT ![i] = n]
              /\ internal_status' =
                    IF tasks[i].execution_lock = NoLock
                    THEN [internal_status EXCEPT ![i] = EnterExecute(@, n)]
                    ELSE internal_status
              /\ pc' = [pc EXCEPT ![i] = IF tasks[i].execution_lock = NoLock
                                         THEN "execute" ELSE "lock"]
              /\ UNCHANGED <<tasks, pending, thrown, files>>
         ELSE /\ Raises(i, "Prepare", outcome)
              /\ UNCHANGED <<num_steps, internal_status>>
    /\ UNCHANGED <<args, outside, total_progress, queue, quit_event, runs, summary, returned, callbacks, all_results, lock_holder,
                   success_count, warning_count, error_count, execute_dm, dm,
                   dispatch, task_index, worker, temp_directory, main>>

\* A lock that is kept when the block under it is left.
KeepLock(holders, l, ex) == holders

\* A lock that is released when the block under it returns and kept when an
\* exception leaves it.
ReleaseOnReturn(holders, l, ex) ==
    IF l = NoLock \/ ex # "None" THEN holders ELSE [holders EXCEPT ![l] = -1]

\* The exit of `with task_data.execution_lock`, by return or with exception
\* ex in flight: the lock is free again (a task without a lock has nothing to
\* release).
ReleaseLock(holders, l, ex) ==
    IF l = NoLock THEN holders ELSE [holders EXCEPT ![l] = -1]

\* A lock that lets every thread in.
LockIgnored(l) == TRUE

\* threading.Lock: the lock can be taken when no thread holds it.
LockFree(l) == lock_holder[l] = -1

\* AcquireExecutionLock: `with task_data.execution_lock` blocks until the lock
\* is free, then Execute is entered.
AcquireStep(i) ==
    /\ pc[i] = "lock"
    /\ LockFree(tasks[i].execution_lock)
    /\ lock_holder' = [lock_holder EXCEPT ![tasks[i].execution_lock] = i]
    /\ internal_status' = [internal_status EXCEPT
                             ![i] = EnterExecute(@, num_steps[i])]
    /\ pc' = [pc EXCEPT ![i] = "execute"]
    /\ UNCHANGED <<args, outside, total_progress, num_steps, queue, quit_event, runs, summary, tasks, pending, thrown, returned, callbacks,
                   all_results, files, success_count, warning_count,
                   error_count, execute_dm, dm, dispatch, task_index, worker,
                   temp_directory, main>>

\* An Execute closure that writes the slot the shared cursor has just passed.
SlotAtCursor(i) ==
    IF dispatch.impl = "_TransformNotCompressed"
    THEN tasks[i].context[1] ELSE task_index - 1

\* The slot index and the context the Execute closure of task i works with:
\* unpacked from the (task_index, context) wrapper by _TransformNotCompressed's
\* Init, the cursor's value and task_data.context in _TransformCompressed.
SlotIndex(i) ==
    IF dispatch.impl = "_TransformNotCompressed" THEN tasks[i].context[1] ELSE i
OriginalContext(i) ==
    IF dispatch.impl = "_TransformNotCompressed"
    THEN tasks[i].context[2] ELSE tasks[i].context

\* The transform of the tests: context * 2, or Exception(f"Error on {context}").
TransformValue(context) == context[1] * 2

\* An Execute closure that keeps every Exception, whatever return_exceptions is.
CatchesAlways(e, return_exceptions) == IsException(e)

\* The Execute closure's `except Exception`: the exception is kept when
\* return_exceptions is set and raised again otherwise.
Catches(e, return_exceptions) == IsException(e) /\ return_exceptions

\* A closure that drops the transform's return code.
ReturnCodeZero(return_code) == 0

\* return_code = transform_result.return_code or 0
ReturnCode(return_code) ==
    IF return_code = NoneInt \/ return_code = 0 THEN 0 ELSE return_code

\* The Execute closure of _TransformNotCompressed / _TransformCompressed around
\* a transform that does o: the exception it lets through and, when it returns,
\* the (return_code, short_desc) pair and the slots.
ExecuteTransform(i, o) ==
    LET context == OriginalContext(i) IN
    IF o.kind = "value"
    THEN [ex |-> "None", code |-> 0, short_desc |-> NoneDesc, caught |-> "None",
          slots |-> [all_results EXCEPT
                       ![SlotIndex(i)] = ValueSlot(TransformValue(context))]]
    ELSE IF o.kind = "complete"
    THEN [ex |-> "None",
          code |-> ReturnCode(o.code),
          short_desc |-> GivenDesc("short_desc"), caught |-> "None",
          slots |-> [all_results EXCEPT
                       ![SlotIndex(i)] = ValueSlot(TransformValue(context))]]
    ELSE IF Catches(o.ex, args.return_exceptions)
    THEN [ex |-> "None", code |-> -1,
          short_desc |-> StrDesc(ToString(context[1])), caught |-> o.ex,
          slots |-> [all_results EXCEPT
                       ![SlotIndex(i)] = ExceptionSlot(context[1])]]
    ELSE [ex |-> o.ex, code |-> 0, short_desc |-> NoneDesc, caught |-> "None",
          slots |-> all_results]

\* The Execute callable of an ExecuteTasks caller, given the handle status.
ExecuteFunc(status, o) ==
    [ex |-> IF o.ex = "None"
            THEN StatusCalls(args.experience_type, status, o) ELSE o.ex,
     code |-> o.code,
     short_desc |-> IF o.kind = "tuple" THEN GivenDesc("status") ELSE NoneDesc,
     caught |-> "None", slots |-> all_results]

\* The Execute closure of YieldQueueExecutor: (0, execute_func(status)).
ExecuteQueued(o) ==
    [ex |-> o.ex, code |-> 0,
     short_desc |-> IF o.kind = "str" THEN GivenDesc("Done!") ELSE NoneDesc,
     caught |-> "None", slots |-> all_results]

\* execute_result = execute_func(internal_status), inside AcquireExecutionLock:
\* the result and short description are assigned and the lock is released, or
\* the lock is released and the exception handled; then the finally block.
ExecuteStep(i) ==
    /\ pc[i] = "execute"
    /\ \E o \in args.caller.execute_func :
         LET r == IF dispatch.impl = "ExecuteTasks"
                  THEN ExecuteFunc(internal_status[i], o)
                  ELSE IF dispatch.impl = "YieldQueueExecutor"
                  THEN ExecuteQueued(o)
                  ELSE ExecuteTransform(i, o)
         IN  /\ all_results' = r.slots
             /\ lock_holder' = ReleaseLock(lock_holder, tasks[i].execution_lock,
                                           r.ex)
             /\ IF r.ex = "None"
                THEN /\ returned' = [returned EXCEPT ![i] = r.code]
                     /\ thrown' = IF r.caught = "None" THEN thrown
                                  ELSE [thrown EXCEPT
                                          ![i] = [in |-> "transform",
                                                  kind |-> r.caught]]
                     /\ Finally(i,
                                [tasks[i] EXCEPT
                                   !.result = r.code,
                                   !.short_desc = r.short_desc,
                                   !.attrs = @ \cup {"result", "short_desc"}],
                                "None", o.logs, files)
                ELSE /\ Raises(i, "Execute", r.ex)
                     /\ returned' = returned
    /\ internal_status' = [internal_status EXCEPT ![i] = LeaveExecute(@)]
    /\ UNCHANGED <<args, outside, total_progress, num_steps, queue, quit_event, runs, summary, callbacks, success_count, warning_count, error_count,
                   execute_dm, dm, dispatch, task_index, worker,
                   temp_directory, main>>

\* An aggregator that counts the tasks that did not succeed only.
AggregateDropsSuccess(r) ==
    [success_count |-> success_count,
     warning_count |-> IF r > 0 THEN warning_count + 1 ELSE warning_count,
     error_count |-> IF r < 0 THEN error_count + 1 ELSE error_count,
     result |-> IF r # 0 /\ execute_dm >= 0 THEN r ELSE execute_dm]

\* An aggregator in which the last result that is not 0 wins.
AggregateLastWins(r) ==
    [success_count |-> IF r = 0 THEN success_count + 1 ELSE success_count,
     warning_count |-> IF r > 0 THEN warning_count + 1 ELSE warning_count,
     error_count |-> IF r < 0 THEN error_count + 1 ELSE error_count,
     result |-> IF r # 0 THEN r ELSE execute_dm]

\* _GenerateExperienceData.OnTaskDataComplete under count_lock: the counters
\* and execute_dm.result after a task with result r.
Aggregate(r) ==
    [success_count |-> IF r = 0 THEN success_count + 1 ELSE success_count,
     warning_count |-> IF r > 0 THEN warning_count + 1 ELSE warning_count,
     error_count |-> IF r < 0 THEN error_count + 1 ELSE error_count,
     result |-> IF r # 0 /\ execute_dm >= 0 THEN r ELSE execute_dm]

\* The thread that ran task i goes back to its loop, or dies with the exception.
WorkerAfter(i, alive) ==
    IF dispatch.mode \in {"compressed", "queue"}
    THEN [worker EXCEPT ![ThreadOf(i)].state = IF alive THEN "idle" ELSE "dead"]
    ELSE worker

\* The summary line of a task: an error or a warning banner.
Banner(result) == IF result < 0 THEN <<"ERROR">> ELSE <<"WARNING">>

\* _GenerateProgressBarExperienceData.OnTaskDataComplete: the line printed
\* for a task, whether its log file exists or not.
ProgressBarLine(quiet, result) ==
    IF ~quiet /\ result # 0 THEN Banner(result) ELSE << >>

\* _GenerateSimpleExperienceData.OnTaskDataComplete: the line written for a
\* task; is_file is task_data.log_filename.is_file().
SimpleLine(quiet, result, is_file) ==
    IF ~quiet /\ result # 0 /\ is_file THEN Banner(result) ELSE << >>

\* A block that runs its exit callback only when it is left without exception.
ExitOnReturn(calls, ex) == IF ex = "None" THEN calls + 1 ELSE calls

\* ContextlibEx.ExitStack: the registered callback runs once when the block
\* is left, by return or with exception ex in flight.
ExitStack(calls, ex) == calls + 1

\* The ExitStack callback of _ExecuteTask: on_task_data_complete_func(task_data)
\* up to the return of the aggregator.  Reading task_data.result of a TaskData
\* that has none is an AttributeError, which leaves _ExecuteTask.
CallbackStep(i) ==
    /\ pc[i] = "callback"
    /\ callbacks' = [callbacks EXCEPT ![i] = ExitStack(@, pending[i])]
    /\ IF "result" \in tasks[i].attrs
       THEN LET a == Aggregate(tasks[i].result) IN
            /\ success_count' = a.success_count
            /\ warning_count' = a.warning_count
            /\ error_count' = a.error_count
            /\ execute_dm' = a.result
            /\ summary' = [summary EXCEPT
                             ![i] = IF args.experience_type = "ProgressBar"
                                    THEN @ \o ProgressBarLine(args.quiet,
                                                              tasks[i].result)
                                    ELSE @]
            /\ total_progress' =
                  [total_progress EXCEPT
                     !.had = @ \cup {<<a.success_count, a.warning_count,
                                       a.error_count>>}]
            /\ pc' = [pc EXCEPT ![i] = "report"]
            /\ UNCHANGED <<pending, worker>>
       ELSE /\ pending' = [pending EXCEPT ![i] = "AttributeError"]
            /\ pc' = [pc EXCEPT ![i] = "raised"]
            /\ worker' = WorkerAfter(i, FALSE)
            /\ UNCHANGED <<success_count, warning_count, error_count,
                           execute_dm, summary, total_progress>>
    /\ UNCHANGED <<args, outside, num_steps, internal_status, queue, quit_event, runs, tasks, thrown, returned, all_results, lock_holder,
                   files, dm, dispatch, task_index, temp_directory, main>>

\* execute_dm.result after the Simple experience has written the line.
AfterLine(line, result) ==
    IF line = <<"ERROR">> THEN WriteError(result)
    ELSE IF line = <<"WARNING">> THEN WriteWarning(result)
    ELSE result

\* The aggregator's `return success_count, warning_count, error_count`, after
\* count_lock has been released: the three counters are read one after the
\* other, and other threads can run in between.  The Simple experience drops
\* the value.
ReadCount(i) ==
    /\ pc[i] = "report"
    /\ args.experience_type = "ProgressBar"
    /\ Len(total_progress.counts[i]) < 3
    /\ total_progress' =
          [total_progress EXCEPT
             !.counts[i] = Append(@, IF Len(@) = 0 THEN success_count
                                     ELSE IF Len(@) = 1 THEN warning_count
                                     ELSE error_count)]
    /\ UNCHANGED <<args, outside, num_steps, internal_status, queue,
                   quit_event, runs, summary, tasks, pc, pending, thrown,
                   returned, callbacks, all_results, lock_holder, files,
                   success_count, warning_count, error_count, execute_dm, dm,
                   dispatch, task_index, worker, temp_directory, main>>

\* The rest of the experience's OnTaskDataComplete: the Simple experience
\* writes its line with dm.WriteError / dm.WriteWarning (dm is execute_dm)
\* when the log file exists; the ProgressBar experience writes the counts it
\* was returned to the 'Total Progress' row (progress_bar.update).
ReportStep(i) ==
    /\ pc[i] = "report"
    /\ args.experience_type = "ProgressBar"
       => Len(total_progress.counts[i]) = 3
    /\ total_progress' =
          IF args.experience_type = "ProgressBar"
          THEN [total_progress EXCEPT
                  !.previous = total_progress.status,
                  !.status = total_progress.counts[i],
                  !.counts[i] = << >>]
          ELSE total_progress
    /\ LET line == IF args.experience_type = "Simple"
                   THEN SimpleLine(args.quiet, tasks[i].result,
                                   tasks[i].log_filename \in files)
                   ELSE << >>
       IN  /\ summary' = [summary EXCEPT ![i] = @ \o line]
           /\ execute_dm' = AfterLine(line, execute_dm)
    /\ pc' = [pc EXCEPT ![i] = IF pending[i] = "None" THEN "done" ELSE "raised"]
    /\ worker' = WorkerAfter(i, pending[i] = "None")
    /\ UNCHANGED <<args, outside, num_steps, internal_status, queue, quit_event, runs, tasks, pending, thrown, returned, callbacks,
                   all_results, lock_holder, files, success_count,
                   warning_count, error_count, dm, dispatch, task_index,
                   temp_directory, main>>

\* ---------------------------------------------------- YieldQueueExecutor
\* available_condition is held by the worker that has checked the queue and
\* has not yet called wait().
ConditionFree == \A t \in DOMAIN worker : worker[t].state # "checked"

Waiting(ws) == {t \in DOMAIN ws : ws[t].state = "wait"}

\* available_condition.notify(): one of the waiting threads wakes up.
Notify(ws) ==
    IF Waiting(ws) = {} THEN {ws}
    ELSE {[ws EXCEPT ![t].state = "idle"] : t \in Waiting(ws)}

\* A shutdown that wakes up one waiting thread only.
NotifyAllWakesOne(ws) ==
    IF Waiting(ws) = {} THEN {ws}
    ELSE {[ws EXCEPT ![t].state = "idle"] : t \in Waiting(ws)}

\* available_condition.notify_all(): every waiting thread wakes up.
NotifyAll(ws) ==
    {[t \in DOMAIN ws |-> IF ws[t].state = "wait"
                          THEN [ws[t] EXCEPT !.state = "idle"] ELSE ws[t]]}

\* The task the block's body enqueues next.
NextToEnqueue == {i \in TaskIds : pc[i] = "pending"
                                  /\ \A j \in TaskIds : j < i => pc[j] # "pending"}

\* Enqueue, first half: queue.append((description, prepare_func)) under
\* queue_lock.
Enqueue(i) ==
    /\ main.pc = "body"
    /\ i \in NextToEnqueue
    /\ queue' = Append(queue, i)
    /\ pc' = [pc EXCEPT ![i] = "queued"]
    /\ main' = [main EXCEPT !.pc = "notify"]
    /\ UNCHANGED <<args, outside, total_progress, num_steps, internal_status, quit_event, runs, summary, tasks, pending, thrown,
                   returned, callbacks, all_results, lock_holder, files,
                   success_count, warning_count, error_count, execute_dm, dm,
                   dispatch, task_index, worker, temp_directory>>

\* Enqueue, second half: available_condition.notify() with the condition held.
EnqueueNotify ==
    /\ main.pc = "notify"
    /\ ConditionFree
    /\ worker' \in Notify(worker)
    /\ main' = [main EXCEPT !.pc = "body"]
    /\ UNCHANGED <<args, outside, total_progress, num_steps, internal_status, queue, quit_event, runs, summary, tasks, pc, pending,
                   thrown, returned, callbacks, all_results, lock_holder,
                   files, success_count, warning_count, error_count,
                   execute_dm, dm, dispatch, task_index, temp_directory>>

\* The block's body raises e: the exception enters the generator at
\* `yield Enqueue` and leaves it through `with ThreadPoolExecutor(...)`, whose
\* exit is executor.shutdown(wait=True).
BodyRaises ==
    /\ main.pc = "body"
    /\ \E e \in args.caller.body \ {"return"} :
         main' = [main EXCEPT !.pc = "shutdown", !.exception = e]
    /\ UNCHANGED <<args, outside, total_progress, num_steps, internal_status, queue,
                   quit_event, runs, summary, tasks, pc, pending, thrown,
                   returned, callbacks, all_results, lock_holder, files,
                   success_count, warning_count, error_count, execute_dm, dm,
                   dispatch, task_index, worker, temp_directory>>

\* The block's body has ended: quit_event.set().
SetQuitEvent ==
    /\ main.pc = "body"
    /\ "return" \in args.caller.body
    /\ NextToEnqueue = {}
    /\ quit_event' = TRUE
    /\ main' = [main EXCEPT !.pc = "notify_all"]
    /\ UNCHANGED <<args, outside, total_progress, num_steps, internal_status, queue, runs, summary, tasks, pc, pending, thrown,
                   returned, callbacks, all_results, lock_holder, files,
                   success_count, warning_count, error_count, execute_dm, dm,
                   dispatch, task_index, worker, temp_directory>>

\* available_condition.notify_all() with the condition held; then the
\* futures are waited for.
NotifyAllStep ==
    /\ main.pc = "notify_all"
    /\ ConditionFree
    /\ worker' \in NotifyAll(worker)
    /\ main' = [main EXCEPT !.pc = "running"]
    /\ UNCHANGED <<args, outside, total_progress, num_steps, internal_status, queue, quit_event, runs, summary, tasks, pc, pending,
                   thrown, returned, callbacks, all_results, lock_holder,
                   files, success_count, warning_count, error_count,
                   execute_dm, dm, dispatch, task_index, temp_directory>>

\* A pop that leaves the task in the queue.
KeepFirst(q) == q

\* A pop that takes the newest task of the queue.
PopNewest(q) == Len(q)

\* queue.pop(0): the place in the queue of the task that is taken, the oldest.
PopIndex(q) == 1

\* queue.pop(0): the queue without the task that is taken.
PopFirst(q) == SubSeq(q, 1, PopIndex(q) - 1) \o SubSeq(q, PopIndex(q) + 1, Len(q))

\* YieldQueueExecutor.Impl: thread t takes available_condition and looks at
\* the queue under queue_lock: it pops the oldest task and enters
\* _ExecuteTask for it, or leaves its loop when quit_event is set, or keeps
\* the condition to wait on it.
CheckQueue(t) ==
    /\ dispatch.mode = "queue"
    /\ worker[t].state = "idle"
    /\ ConditionFree
    /\ IF queue # << >>
       THEN LET task == queue[PopIndex(queue)] IN
            /\ queue' = PopFirst(queue)
            /\ worker' = [worker EXCEPT ![t] = [state |-> "run",
                                                task |-> task]]
            /\ pc' = [pc EXCEPT ![task] = "init"]
            /\ runs' = [runs EXCEPT ![task] = @ + 1]
       ELSE /\ worker' = [worker EXCEPT
                            ![t].state = IF quit_event THEN "exited"
                                         ELSE "checked"]
            /\ UNCHANGED <<queue, pc, runs>>
    /\ UNCHANGED <<args, outside, total_progress, num_steps, internal_status, quit_event, summary, tasks, pending, thrown,
                   returned, callbacks, all_results, lock_holder, files,
                   success_count, warning_count, error_count, execute_dm, dm,
                   dispatch, task_index, temp_directory, main>>

\* YieldQueueExecutor.Impl: available_condition.wait() releases the condition
\* and blocks until a notification.
Wait(t) ==
    /\ worker[t].state = "checked"
    /\ worker' = [worker EXCEPT ![t].state = "wait"]
    /\ UNCHANGED <<args, outside, total_progress, num_steps, internal_status, queue, quit_event, runs, summary, tasks, pc, pending,
                   thrown, returned, callbacks, all_results, lock_holder,
                   files, success_count, warning_count, error_count,
                   execute_dm, dm, dispatch, task_index, temp_directory, main>>

\* ------------------------------------------------------------------ join
\* The calling thread can leave the batch: its own loop has ended or a task
\* raised (sequential); every work item has run, which the executor's
\* shutdown waits for (pool); every worker has left its loop (compressed).
BatchOver ==
    IF dispatch.mode = "sequential"
    THEN (\A i \in TaskIds : pc[i] = "done") \/ (\E i \in TaskIds : pc[i] = "raised")
    ELSE IF dispatch.mode = "pool"
    THEN \A i \in TaskIds : pc[i] \in {"done", "raised"}
    ELSE \A t \in DOMAIN worker : worker[t].state \in {"exited", "dead"}

\* future.result() in submission order: the exception of the first future
\* that holds one.
BatchException ==
    IF dispatch.mode \in {"compressed", "queue"}
    THEN LET dead == {t \in DOMAIN worker : worker[t].state = "dead"} IN
         IF dead = {} THEN "None"
         ELSE pending[worker[CHOOSE t \in dead : \A u \in dead : t <= u].task]
    ELSE LET failed == {i \in TaskIds : pc[i] = "raised"} IN
         IF failed = {} THEN "None"
         ELSE pending[CHOOSE i \in failed : \A j \in failed : i <= j]

\* The entry point returns, or raises what the batch raised; the executor's
\* shutdown under the exception of a block's body has waited for the same
\* threads and lets that exception through.
Join ==
    /\ main.pc \in {"running", "shutdown"}
    /\ BatchOver
    /\ Unwind(IF main.pc = "shutdown" THEN main.exception ELSE BatchException,
              dispatch.impl, tasks)
    /\ UNCHANGED <<args, outside, total_progress, num_steps, internal_status, queue, quit_event, runs, summary, pc, pending, thrown, returned, callbacks,
                   all_results, lock_holder, files, success_count,
                   warning_count, error_count, dispatch, task_index, worker>>

Next ==
    \/ Call
    \/ \E i \in TaskIds : Start(i)
    \/ \E t \in DOMAIN worker : TakeTask(t)
    \/ \E t \in DOMAIN worker : WorkerExit(t)
    \/ \E i \in TaskIds : InitStep(i)
    \/ \E i \in TaskIds : PrepareStep(i)
    \/ \E i \in TaskIds : AcquireStep(i)
    \/ \E i \in TaskIds : ExecuteStep(i)
    \/ \E i \in TaskIds : CallbackStep(i)
    \/ \E i \in TaskIds : ReadCount(i)
    \/ \E i \in TaskIds : ReportStep(i)
    \/ \E i \in TaskIds : Enqueue(i)
    \/ EnqueueNotify
    \/ BodyRaises
    \/ SetQuitEvent
    \/ NotifyAllStep
    \/ \E t \in DOMAIN worker : CheckQueue(t)
    \/ \E t \in DOMAIN worker : Wait(t)
    \/ Join

Spec == Init /\ [][Next]_vars

\* ------------------------------------------------- TextwrapEx.BoundedLJust
\* A str is the sequence of its characters.
Spaces(n) == [k \in 1 .. n |-> " "]
Ellipsis == <<".", ".", ".">>

\* value[:stop] and value[start:], with Python's reading of an index: a
\* negative one counts from the end, and the result is clipped to the string.
PyIndex(s, k) ==
    IF k < 0 THEN (IF k + Len(s) < 0 THEN 0 ELSE k + Len(s))
    ELSE IF k > Len(s) THEN Len(s) ELSE k
SliceTo(s, stop) == SubSeq(s, 1, PyIndex(s, stop))
SliceFrom(s, start) == SubSeq(s, PyIndex(s, start) + 1, Len(s))

\* math.floor(x / 2) and math.ceil(x / 2).
FloorHalf(x) == x \div 2
CeilHalf(x) == (x + 1) \div 2

BoundedLJust(value, length) ==
    LET len_value == Len(value)
        chars_to_trim2 == len_value - length + 3
        midpoint == IF length % 2 = 0 /\ len_value % 2 = 0
                    THEN FloorHalf(len_value) - 1 ELSE FloorHalf(len_value)
    IN  IF len_value < length THEN value \o Spaces(length - len_value)
        ELSE IF len_value > length
        THEN SliceTo(value, midpoint - FloorHalf(chars_to_trim2))
             \o Ellipsis
             \o SliceFrom(value, midpoint + CeilHalf(chars_to_trim2))
        ELSE value

\* The strings and target lengths the calls are made with.
Chars == {"a", "b"}
Strings == UNION {[1 .. n -> Chars] : n \in 0 .. MaxLen}
Lengths == 0 .. MaxLen + 1

\* No batch is under way: the state before any entry point is called.
NoBatch ==
    /\ args = CHOOSE a \in ArgsSet : a.entry = "ExecuteTasks"
    /\ tasks = << >>
    /\ pc = << >>
    /\ pending = << >>
    /\ thrown = << >>
    /\ returned = << >>
    /\ callbacks = << >>
    /\ runs = << >>
    /\ summary = << >>
    /\ num_steps = << >>
    /\ internal_status = << >>
    /\ total_progress = NoProgress(0)
    /\ all_results = << >>
    /\ lock_holder = [l \in Locks |-> -1]
    /\ files = {}
    /\ success_count = 0
    /\ warning_count = 0
    /\ error_count = 0
    /\ dispatch = [impl |-> "none", mode |-> "none", max_workers |-> 0]
    /\ task_index = 0
    /\ worker = << >>
    /\ queue = << >>
    /\ quit_event = FALSE
    /\ temp_directory = "none"
    /\ main = [pc |-> "call", exception |-> "None", value |-> << >>]

\* The variables of a batch.
batch == <<args, tasks, pc, pending, thrown, returned, callbacks, runs,
           summary, num_steps, internal_status, total_progress, all_results,
           lock_holder,
           files, success_count, warning_count, error_count, dispatch,
           task_index, worker, queue, quit_event, temp_directory, main>>

TextInit ==
    /\ bounded \in [pc : {"call"}, value : Strings, length : Lengths,
                     result : {<< >>}, again : {<< >>}]
    /\ nested = NoScopes
    /\ execute_dm = 0
    /\ dm = 0
    /\ NoBatch

\* result = BoundedLJust(value, length)
Truncate ==
    /\ bounded.pc = "call"
    /\ bounded' = [bounded EXCEPT !.pc = "once",
                            !.result = BoundedLJust(bounded.value, bounded.length)]
    /\ UNCHANGED <<batch, nested, execute_dm, dm>>

\* again = BoundedLJust(result, length)
TruncateAgain ==
    /\ bounded.pc = "once"
    /\ bounded' = [bounded EXCEPT !.pc = "twice",
                            !.again = BoundedLJust(bounded.result, bounded.length)]
    /\ UNCHANGED <<batch, nested, execute_dm, dm>>

TextNext == Truncate \/ TruncateAgain

TextSpec == TextInit /\ [][TextNext]_vars

\* ------------------------------------------------ DoneManager nested scopes
\* The result codes the body of a nested scope assigns to dm.result.
ScopeCodes == {-2, -1, 0, 1, 2}

\* How the body of a nested scope ends.
ScopeExits == {"None", "Exception", "KeyboardInterrupt"}

\* A parent scope with result 0 (dm) that has opened no nested scope yet;
\* execute_dm is the nested scope.
NestedInit ==
    /\ nested = NoScopes
    /\ bounded = NoText
    /\ execute_dm = 0
    /\ dm = 0
    /\ NoBatch

\* with dm.Nested(...) as execute_dm: the nested scope starts with result 0.
OpenNested ==
    /\ ~nested.open
    /\ nested.exited < MaxScopes
    /\ nested' = [nested EXCEPT !.open = TRUE]
    /\ execute_dm' = 0
    /\ UNCHANGED <<batch, bounded, dm>>

\* The body of the nested scope: execute_dm.result = code.
SetResult ==
    /\ nested.open
    /\ \E code \in ScopeCodes : execute_dm' = code
    /\ UNCHANGED <<batch, bounded, nested, dm>>

\* The body of the nested scope: execute_dm.WriteError(...) or
\* execute_dm.WriteWarning(...).
WriteInScope ==
    /\ nested.open
    /\ execute_dm' \in {WriteError(execute_dm), WriteWarning(execute_dm)}
    /\ UNCHANGED <<batch, bounded, nested, dm>>

\* The nested scope exits, its body having returned or raised: the scope
\* settles its own result, then _CreateNestedImpl's finally block updates
\* the parent's.
ExitNested ==
    /\ nested.open
    /\ \E ex \in ScopeExits :
         LET child == ScopeResult(execute_dm, ex) IN
         /\ execute_dm' = child
         /\ dm' = Bubble(dm, child)
         /\ nested' = [open |-> FALSE, exited |-> nested.exited + 1,
                       before |-> dm, child |-> child]
    /\ UNCHANGED <<batch, bounded>>

NestedNext == OpenNested \/ SetResult \/ WriteInScope \/ ExitNested

NestedSpec == NestedInit /\ [][NestedNext]_vars

\* Every thread that can take a step is scheduled in the end: the main thread
\* and the pool's threads are operating-system threads, none of which can be
\* starved for ever while it is runnable.
LiveSpec == Spec /\ WF_vars(Next)

\* ---------------------------------------------------------------- claims
AssignedFields == {"result", "short_desc", "log_filename", "execution_time"}

\* The entry point has returned or raised.
Finished == main.pc \in {"returned", "raised"}

\* _ExecuteTask has handled the outcome of task i's user code.
Handled(i) == pc[i] \in {"callback", "report", "done", "raised"}

Sign(x) == IF x < 0 THEN -1 ELSE IF x > 0 THEN 1 ELSE 0

\* The sign of the batch's results: an error outranks a warning.
DominantSign ==
    IF \E i \in TaskIds : tasks[i].result < 0 THEN -1
    ELSE IF \E i \in TaskIds : tasks[i].result > 0 THEN 1
    ELSE 0

\* C1: for every task count, cpu count, max_num_threads and no_compress_tasks,
\* a TransformTasksEx call whose transforms all return comes back with a list
\* of N entries whose entry i is the transform's value for tasks[i], 2 * i.
C1_IndexAlignment ==
    (/\ args.entry = "TransformTasksEx"
     /\ Finished
     /\ \A i \in TaskIds : thrown[i] = NoThrow)
    => /\ main.pc = "returned"
       /\ main.value = [i \in TaskIds |-> [kind |-> "value", v |-> 2 * i]]

\* C2: once every task of a batch has completed, the nested scope's result
\* is negative if a task result is negative, otherwise positive if a task
\* result is positive, otherwise 0, and so is the caller's dm.result (0
\* before the call) once the entry point has returned.
C2_RunResultSign ==
    (/\ main.pc \in {"running", "returned"}
     /\ \A i \in TaskIds : pc[i] = "done")
    => /\ Sign(execute_dm) = DominantSign
       /\ main.pc = "returned" => Sign(dm) = DominantSign

\* C2 happens: on the calling thread's loop a warning completes after an
\* error, a success after both, and the run result is the error.
C2_Witness ==
    /\ main.pc = "returned"
    /\ dispatch.mode = "sequential"
    /\ NumTasks = 3
    /\ tasks[0].result = -1
    /\ tasks[1].result = 1
    /\ tasks[2].result = 0
    /\ execute_dm = -1
    /\ dm = -1

\* C3: two tasks that carry the same execution_lock are never both inside
\* their Execute callable.
C3_LockMutualExclusion ==
    \A i, j \in TaskIds :
        (/\ i # j
         /\ tasks[i].execution_lock # NoLock
         /\ tasks[i].execution_lock = tasks[j].execution_lock)
        => ~(pc[i] = "execute" /\ pc[j] = "execute")

\* C3 happens: a task is inside Execute under a lock a second task waits for,
\* while a task without lock and a task with another lock are inside Execute.
C3_Witness ==
    \E i, j, k \in TaskIds :
        /\ tasks[i].execution_lock = "lockA"
        /\ tasks[j].execution_lock = "lockA"
        /\ i # j
        /\ pc[i] = "execute"
        /\ pc[j] = "lock"
        /\ tasks[k].execution_lock # "lockA"
        /\ pc[k] = "execute"

\* The Exceptions raised by the tasks of an ExecuteTasks batch are all there
\* is: the call has ended and no task raised anything but an Exception.
OnlyExceptions ==
    /\ args.entry = "ExecuteTasks"
    /\ Finished
    /\ \A i \in TaskIds : thrown[i].kind \in {"none", "TransformError", "Exception"}

\* Task i ran to completion with the result its own Execute returned.
RanToCompletion(i) ==
    /\ pc[i] = "done"
    /\ thrown[i] = NoThrow => /\ "result" \in tasks[i].attrs
                              /\ tasks[i].result = returned[i]

C5_CallbackExactlyOnce ==
    \A i \in TaskIds :
        /\ pc[i] \in {"pending", "init", "prepare", "lock", "execute", "callback"}
           => callbacks[i] = 0
        /\ pc[i] \in {"report", "done", "raised"} => callbacks[i] = 1

\* C5 happens: a task that returned, a task that raised TransformError and a
\* task whose Init failed catastrophically have each left the runner.
C5_Witness ==
    \E i, j \in TaskIds :
        /\ pc[i] = "done"
        /\ thrown[i].kind = "TransformError"
        /\ callbacks[i] = 1
        /\ pc[j] = "done"
        /\ thrown[j] = [in |-> "Init", kind |-> "Exception"]
        /\ callbacks[j] = 1

\* C6: when the entry point returns, every TaskData has result, short_desc,
\* log_filename and execution_time assigned by the one run of the runner it
\* got, and the assertions of the finally block fail on no Exception path.
C6_FieldsAssigned ==
    /\ main.pc = "returned"
       => \A i \in TaskIds : /\ AssignedFields \subseteq tasks[i].attrs
                             /\ callbacks[i] = 1
    /\ \A i \in TaskIds :
         pending[i] = "AssertionError" => thrown[i].kind = "KeyboardInterrupt"

\* C6 happens: the call returned after a task whose Init raised, which got a
\* fresh log file, a task whose Execute raised and a task that succeeded.
C6_Witness ==
    /\ main.pc = "returned"
    /\ \E i, j \in TaskIds :
         /\ thrown[i] = [in |-> "Init", kind |-> "Exception"]
         /\ tasks[i].log_filename = [dir |-> "CreateTempFileName", n |-> i]
         /\ AssignedFields \subseteq tasks[i].attrs
         /\ thrown[j] = NoThrow
         /\ AssignedFields \subseteq tasks[j].attrs

\* C7: an Exception that reaches the runner from Init, Prepare or Execute
\* gives the task result 1 and "<display> failed" when it is a
\* TransformError, and -123 and "<desc> failed" otherwise; the latter is
\* counted as an error by the aggregator.
C7_Classification ==
    \A i \in TaskIds :
        (Handled(i) /\ thrown[i].in \in {"Init", "Prepare", "Execute"})
        => /\ thrown[i].kind = "TransformError"
              => /\ tasks[i].result = 1
                 /\ tasks[i].short_desc = [fmt |-> "failed", arg |-> tasks[i].display]
           /\ thrown[i].kind = "Exception"
              => /\ tasks[i].result = -123
                 /\ tasks[i].short_desc = [fmt |-> "failed", arg |-> "Testing..."]
                 /\ pc[i] \in {"report", "done"}
                    => error_count >= 1 /\ execute_dm < 0

\* C7 happens: a Prepare raised TransformError, an Execute raised Exception.
C7_Witness ==
    \E i, j \in TaskIds :
        /\ pc[i] = "done"
        /\ thrown[i] = [in |-> "Prepare", kind |-> "TransformError"]
        /\ tasks[i].result = 1
        /\ pc[j] = "done"
        /\ thrown[j] = [in |-> "Execute", kind |-> "Exception"]
        /\ tasks[j].result = -123

\* C8: a KeyboardInterrupt raised in Init, Prepare or Execute is given no
\* result code and is the exception that leaves _ExecuteTask.
C8_KeyboardInterruptPropagates ==
    \A i \in TaskIds :
        (thrown[i].kind = "KeyboardInterrupt" /\ pc[i] = "raised")
        => /\ "result" \notin tasks[i].attrs
           /\ pending[i] = "KeyboardInterrupt"

\* C9: with return_exceptions, a transform's Exception is kept: the task's
\* slot holds it, the task's result is -1 and its short description
\* str(exception); when every transform raised, the call returns the
\* exceptions and the run result is -1.
C9_ReturnExceptions ==
    (args.entry = "TransformTasksEx" /\ args.return_exceptions)
    => /\ \A i \in TaskIds :
            /\ ~(thrown[i].in = "Execute"
                 /\ thrown[i].kind \in {"TransformError", "Exception"})
            /\ thrown[i].in = "transform"
               => /\ all_results[i] = [kind |-> "exception", v |-> i]
                  /\ tasks[i].result = -1
                  /\ tasks[i].short_desc = [fmt |-> "str", arg |-> ToString(i)]
       /\ (/\ Finished
           /\ NumTasks > 0
           /\ \A i \in TaskIds : thrown[i].in = "transform")
          => /\ main.pc = "returned"
             /\ main.value = [i \in TaskIds |-> [kind |-> "exception", v |-> i]]
             /\ execute_dm = -1
             /\ dm = -1

\* C9 happens: a compressed batch in which both transforms raised returned.
C9_Witness ==
    /\ args.return_exceptions
    /\ dispatch.impl = "_TransformCompressed"
    /\ main.pc = "returned"
    /\ NumTasks = 2
    /\ \A i \in TaskIds : thrown[i].in = "transform"
    /\ dm = -1

\* C10: without return_exceptions, a transform's Exception leaves the task's
\* slot None and does not leave the entry point; when every transform raised
\* an Exception other than TransformError, the run result is -123.
C10_ExceptionsNotReturned ==
    (args.entry = "TransformTasksEx" /\ ~args.return_exceptions)
    => /\ \A i \in TaskIds :
            /\ thrown[i].in # "transform"
            /\ (thrown[i].in = "Execute"
                /\ thrown[i].kind \in {"TransformError", "Exception"})
               => /\ all_results[i] = [kind |-> "None", v |-> 0]
                  /\ pending[i] = "None"
                  /\ pc[i] # "raised"
       /\ (/\ Finished
           /\ \E i \in TaskIds : thrown[i].in = "Execute"
           /\ \A i \in TaskIds : thrown[i].kind # "KeyboardInterrupt")
          => main.pc = "returned"
       /\ (/\ Finished
           /\ NumTasks > 0
           /\ \A i \in TaskIds : thrown[i] = [in |-> "Execute", kind |-> "Exception"])
          => /\ main.value = [i \in TaskIds |-> [kind |-> "None", v |-> 0]]
             /\ execute_dm = -123
             /\ dm = -123

\* C10 happens: a compressed batch in which both transforms raised returned.
C10_Witness ==
    /\ ~args.return_exceptions
    /\ dispatch.impl = "_TransformCompressed"
    /\ main.pc = "returned"
    /\ NumTasks = 2
    /\ \A i \in TaskIds : thrown[i] = [in |-> "Execute", kind |-> "Exception"]
    /\ dm = -123

\* The path is a file when the entry point has come back: it was written, and
\* a file of the temporary directory is there while the directory is kept.
OnDisk(p) ==
    /\ p \in files
    /\ p.dir = "temp_directory" => temp_directory = "preserved"

\* The runner's except Exception branch handled a failure of task i.
FailedInRunner(i) ==
    /\ thrown[i].in \in {"Init", "Prepare", "Execute"}
    /\ thrown[i].kind \in {"TransformError", "Exception"}

Aggregated(i) ==
    \/ pc[i] \in {"report", "done"}
    \/ pc[i] = "raised" /\ "result" \in tasks[i].attrs

AggregatedWith(sign) ==
    Cardinality({i \in TaskIds : Aggregated(i) /\ Sign(tasks[i].result) = sign})

\* C12: in every reachable state, under any interleaving of the worker
\* threads, success_count + warning_count + error_count is the number of
\* tasks whose aggregator update has run, and each counter is the number of
\* those tasks with its sign of result: 0 success, > 0 warning, < 0 error.
C12_CountersMatchCompletions ==
    /\ success_count + warning_count + error_count
         = Cardinality({i \in TaskIds : Aggregated(i)})
    /\ success_count = AggregatedWith(0)
    /\ warning_count = AggregatedWith(1)
    /\ error_count = AggregatedWith(-1)

\* C12 happens: a thread pool ran three tasks, one of each sign of result.
C12_Witness ==
    /\ dispatch.mode = "pool"
    /\ dispatch.max_workers > 1
    /\ main.pc = "returned"
    /\ success_count = 1
    /\ warning_count = 1
    /\ error_count = 1

\* C13: every task the body of a YieldQueueExecutor block enqueues is
\* executed exactly once by some worker: no task is taken twice, no worker
\* leaves its loop while a task is queued or still to be enqueued, and when
\* the block's exit has come back every task has run once and completed,
\* the tasks that were in the queue when quit_event was set included.
C13_QueuedTasksRunExactlyOnce ==
    args.entry = "YieldQueueExecutor"
    => /\ \A i \in TaskIds :
            /\ runs[i] = (IF pc[i] \in {"pending", "queued"} THEN 0 ELSE 1)
            /\ pc[i] = "queued"
                 <=> \E k \in 1 .. Len(queue) : queue[k] = i
       /\ \A k, l \in 1 .. Len(queue) : queue[k] = queue[l] => k = l
       /\ (\E t \in DOMAIN worker : worker[t].state = "exited")
          => /\ quit_event
             /\ queue = << >>
             /\ \A i \in TaskIds : pc[i] \notin {"pending", "queued"}
       /\ Finished
          => \A i \in TaskIds : /\ runs[i] = 1
                                /\ callbacks[i] = 1
                                /\ pc[i] = "done"

\* C13 happens: a YieldQueueExecutor block with a single worker has come
\* back after its body enqueued two tasks, one of which raised.
C13_Witness ==
    /\ args.entry = "YieldQueueExecutor"
    /\ dispatch.max_workers = 1
    /\ main.pc = "returned"
    /\ NumTasks = MaxQueued
    /\ \A i \in TaskIds : runs[i] = 1 /\ pc[i] = "done"
    /\ \E i \in TaskIds : thrown[i].in = "Execute"

\* C14: after the body of a YieldQueueExecutor block has finished, every
\* worker thread leaves its loop in the end and the context manager returns,
\* whatever the interleaving of the Enqueue notifications, the workers'
\* queue checks and waits, quit_event.set() and notify_all(): no worker is
\* left waiting on available_condition for ever.
C14_QueueExecutorTerminates ==
    (/\ args.entry = "YieldQueueExecutor"
     /\ "return" \in args.caller.body
     /\ main.pc = "body"
     /\ NextToEnqueue = {})
    ~> (/\ main.pc = "returned"
        /\ \A t \in DOMAIN worker : worker[t].state = "exited")

\* C14 happens: the block has come back with both of its workers out of
\* their loops, after its body enqueued two tasks.
C14_Witness ==
    /\ args.entry = "YieldQueueExecutor"
    /\ main.pc = "returned"
    /\ quit_event
    /\ NumTasks = MaxQueued
    /\ DOMAIN worker = 0 .. 1
    /\ \A t \in DOMAIN worker : worker[t].state = "exited"

\* C15: when ExecuteTasks is called with max_num_threads = 1, or with a
\* single task, the tasks run one at a time in input order: at most one task
\* is inside _ExecuteTask, and when task j has started, every task before it
\* has completed and its completion callback has run.
C15_SequentialInInputOrder ==
    (args.entry = "ExecuteTasks" /\ (args.max_num_threads = 1 \/ NumTasks = 1))
    => /\ Cardinality(Active) <= 1
       /\ \A i, j \in TaskIds :
            (i < j /\ pc[j] # "pending")
            => pc[i] = "done" /\ callbacks[i] = 1

\* C15 happens: with max_num_threads = 1 and several processors, the last of
\* three tasks has entered Init and the two before it are complete.
C15_Witness ==
    /\ args.entry = "ExecuteTasks"
    /\ args.max_num_threads = 1
    /\ args.cpu_count > 1
    /\ NumTasks = MaxTasks
    /\ pc[NumTasks - 1] = "init"
    /\ \A i \in TaskIds : i < NumTasks - 1 => callbacks[i] = 1

\* The effective thread count of the TransformTasksEx call.
EffectiveThreads == NumThreads(NumTasks, args.cpu_count, args.max_num_threads)

\* C16 as stated: for every T >= 1, P >= 1 and cap, TransformTasksEx selects
\* _TransformNotCompressed when compression is disabled, or the effective
\* thread count is below P, or only one thread would run, and selects
\* _TransformCompressed otherwise, so that no call ends in the AssertionError
\* of `assert num_threads > 1`.
C16_DispatchSelection ==
    (args.entry = "TransformTasksEx" /\ main.pc # "call" /\ NumTasks >= 1)
    => /\ dispatch.impl = (IF \/ args.no_compress_tasks
                              \/ EffectiveThreads < args.cpu_count
                              \/ EffectiveThreads = 1
                           THEN "_TransformNotCompressed"
                           ELSE "_TransformCompressed")
       /\ main.exception # "AssertionError"

\* The threads of the pool that are inside _ExecuteTask for task i.
RunnersOf(i) ==
    {t \in DOMAIN worker : worker[t].state = "run" /\ worker[t].task = i}

\* C17: under compressed dispatch, with any number of workers and any
\* interleaving, the shared cursor hands out the indices 0, 1, ... in turn,
\* each to one worker and once: the tasks below the cursor have been run
\* exactly once, those at or above it not at all, a task inside _ExecuteTask
\* is run by exactly one thread, and a worker has left its loop only with
\* the cursor at T.
C17_CursorHandsOutEachIndexOnce ==
    dispatch.mode = "compressed"
    => /\ task_index \in 0 .. NumTasks
       /\ \A i \in TaskIds :
            /\ runs[i] = (IF i < task_index THEN 1 ELSE 0)
            /\ pc[i] = "pending" <=> i >= task_index
            /\ Cardinality(RunnersOf(i)) = (IF i \in Active THEN 1 ELSE 0)
       /\ \A t \in DOMAIN worker :
            worker[t].state = "exited" => task_index = NumTasks
       /\ main.pc = "returned" => \A i \in TaskIds : runs[i] = 1

\* C17 happens: two workers of a compressed batch of three tasks each run a
\* task while the third has already been run.
C17_Witness ==
    /\ dispatch.mode = "compressed"
    /\ NumTasks = MaxTasks
    /\ task_index = NumTasks
    /\ Cardinality({t \in DOMAIN worker : worker[t].state = "run"}) = 2
    /\ \E i \in TaskIds : pc[i] = "done"

\* C18 as stated: for every task count T, P >= 1 and cap >= 1, the effective
\* thread count of TransformTasksEx is min(T, P, max_num_threads), or
\* min(T, P) without a cap, and a worker pool of that size (the calling
\* thread alone for the size 1 of uncompressed dispatch) is what the call
\* creates.
C18_EffectiveThreadsIsPoolSize ==
    (args.entry = "TransformTasksEx" /\ main.pc # "call")
    => /\ EffectiveThreads
            = (IF args.max_num_threads = NoneInt
               THEN Min(NumTasks, args.cpu_count)
               ELSE Min(Min(NumTasks, args.cpu_count), args.max_num_threads))
       /\ dispatch.max_workers = EffectiveThreads
       /\ dispatch.mode = "compressed"
            => Cardinality(DOMAIN worker) = EffectiveThreads

\* A task of the batch ended with a result other than 0.
SomeNonZeroResult == \E i \in TaskIds : tasks[i].result # 0

\* The temporary directory holds a log file.
SomeTempLog == \E f \in files : f.dir = "temp_directory"

\* C19 as stated: when a TransformTasksEx or YieldQueueExecutor batch has
\* returned, its temporary directory has been removed if every task result
\* is 0, and preserved if at least one task result is not 0.
C19_PreservedOnAnyNonZeroResult ==
    (args.entry # "ExecuteTasks" /\ main.pc = "returned")
    => temp_directory = (IF SomeNonZeroResult THEN "preserved" ELSE "removed")

\* C19: when a TransformTasksEx or YieldQueueExecutor batch has returned,
\* its temporary directory is preserved if at least one task result is not 0
\* and the directory holds a log file, and has been removed otherwise: when
\* every task result is 0, and also when the tasks that did not end with 0
\* left no log file behind.
C19_PreservedWhenNonZeroAndLogged ==
    (args.entry # "ExecuteTasks" /\ main.pc = "returned")
    => temp_directory = (IF SomeNonZeroResult /\ SomeTempLog
                         THEN "preserved" ELSE "removed")

\* C19 happens: a batch returned with a failed task next to a successful one
\* and its temporary directory, which holds the failed task's log, is kept.
C19_Witness ==
    /\ args.entry # "ExecuteTasks"
    /\ main.pc = "returned"
    /\ temp_directory = "preserved"
    /\ \E i, j \in TaskIds : /\ tasks[i].result = 0
                             /\ tasks[j].result # 0
                             /\ tasks[j].log_filename \in files

\* C20 as stated: when not in quiet mode, under the Simple and under the
\* ProgressBar experience, a task that has completed with a result other
\* than 0 has produced exactly one summary line, an ERROR line for a result
\* below 0 and a WARNING line for a result above 0, and a task that has
\* completed with result 0 has produced none.
C20_OneSummaryLinePerNonZeroResult ==
    ~args.quiet
    => \A i \in TaskIds :
          pc[i] = "done"
          => summary[i] = (IF tasks[i].result # 0
                           THEN Banner(tasks[i].result) ELSE << >>)

\* C21: in quiet mode no task produces a console line, and the console line
\* is all that quiet mode changes: whenever a task is about to be reported,
\* the run-level result after its report is the same whether the line is
\* written or not (the task's fields and the three counters are assigned
\* before, by code that does not read the quiet flag).
C21_QuietChangesOnlyTheConsole ==
    /\ args.quiet => \A i \in TaskIds : summary[i] = << >>
    /\ \A i \in TaskIds :
         /\ "result" \in tasks[i].attrs
            => ProgressBarLine(TRUE, tasks[i].result) = << >>
         /\ pc[i] = "report"
            => LET is_file == tasks[i].log_filename \in files
                   loud == SimpleLine(FALSE, tasks[i].result, is_file)
                   silent == SimpleLine(TRUE, tasks[i].result, is_file)
               IN  /\ silent = << >>
                   /\ AfterLine(loud, execute_dm) = AfterLine(silent, execute_dm)

\* C21 happens: a quiet run under the Simple experience completed a task
\* with a result other than 0 whose log file exists, without a line, and the
\* run-level result is the task's.
C21_Witness ==
    /\ args.quiet
    /\ args.experience_type = "Simple"
    /\ main.pc = "returned"
    /\ \E i \in TaskIds : /\ pc[i] = "done"
                          /\ tasks[i].result # 0
                          /\ tasks[i].log_filename \in files
                          /\ summary[i] = << >>
                          /\ dm = tasks[i].result

\* The runner has called SetNumSteps(n) on task i's ProgressBar handle and
\* task i's _ExecuteTask has not finished.
StepCountSet(i) ==
    /\ args.experience_type = "ProgressBar"
    /\ num_steps[i] # NoneInt
    /\ pc[i] \in {"execute", "callback", "report"}

\* C22 as stated: under ExecuteTasks, TransformTasksEx and
\* YieldQueueExecutor alike, once the runner has set a step count n on a
\* task's status handle, the handle's step count is n until that task's
\* _ExecuteTask has finished.
C22_StepCountKeptUntilTaskEnds ==
    \A i \in TaskIds :
       StepCountSet(i) => internal_status[i].num_steps = num_steps[i]

\* C22: once the runner has set a step count n on a task's status handle,
\* the handle's step count is n for as long as the task's Execute runs;
\* under ExecuteTasks and TransformTasksEx it stays n until _ExecuteTask has
\* finished, and under YieldQueueExecutor it is None from the exit of
\* Execute on, through finalization and the completion callback.
C22_StepCountKeptDuringExecute ==
    \A i \in TaskIds :
       StepCountSet(i)
       => internal_status[i].num_steps
            = (IF pc[i] # "execute" /\ args.entry = "YieldQueueExecutor"
               THEN NoneInt ELSE num_steps[i])

\* C22 happens: an ExecuteTasks task that declared a step count and took
\* its lock is past its completion callback, after its Execute raised, and
\* its handle still has the count.
C22_Witness ==
    /\ args.entry = "ExecuteTasks"
    /\ \E i \in TaskIds : /\ StepCountSet(i)
                          /\ tasks[i].execution_lock # NoLock
                          /\ pc[i] = "report"
                          /\ thrown[i].in = "Execute"
                          /\ internal_status[i].num_steps = NumSteps

\* C23 as stated: BoundedLJust(value, length) is a string of exactly length
\* characters for every value and every target length: value followed by
\* spaces when value is shorter, value itself when equal, and a left part of
\* value, three dots and a right part of value when value is longer.
C23_ExactlyLengthChars ==
    bounded.pc \in {"once", "twice"}
    => /\ Len(bounded.result) = bounded.length
       /\ Len(bounded.value) < bounded.length
          => bounded.result
               = bounded.value \o Spaces(bounded.length - Len(bounded.value))
       /\ Len(bounded.value) = bounded.length => bounded.result = bounded.value
       /\ Len(bounded.value) > bounded.length
          => \E l, r \in 0 .. Len(bounded.value) :
                bounded.result = SubSeq(bounded.value, 1, l) \o Ellipsis
                              \o SubSeq(bounded.value, Len(bounded.value) - r + 1,
                                        Len(bounded.value))

\* C24 as stated: BoundedLJust(BoundedLJust(s, w), w) = BoundedLJust(s, w)
\* for every string s and every width w < len(s).
C24_TruncationIdempotent ==
    (bounded.pc = "twice" /\ bounded.length < Len(bounded.value))
    => bounded.again = bounded.result

FirstOf(S) == CHOOSE i \in S : \A j \in S : i <= j

\* C26 as stated: the run-level result is the result of the first error to
\* complete, or, while no error has completed, of the first warning to
\* complete: a later warning with another positive code, or a later error
\* with another negative code, leaves it unchanged.
C26_FirstCodeIsKept ==
    (args.entry = "ExecuteTasks" /\ dispatch.mode = "sequential"
     /\ main.pc = "running")
    => LET errors == {i \in TaskIds : Aggregated(i) /\ tasks[i].result < 0}
           warnings == {i \in TaskIds : Aggregated(i) /\ tasks[i].result > 0}
       IN  execute_dm = (IF errors # {} THEN tasks[FirstOf(errors)].result
                         ELSE IF warnings # {}
                         THEN tasks[FirstOf(warnings)].result
                         ELSE 0)

\* The steps _ExecuteTask can take for task k.
RunnerStep(k) ==
    \/ InitStep(k)
    \/ PrepareStep(k)
    \/ AcquireStep(k)
    \/ ExecuteStep(k)
    \/ CallbackStep(k)
    \/ ReadCount(k)
    \/ ReportStep(k)

\* C27: a task that carries an execution_lock holds it exactly from its
\* acquisition to the end of Execute: not during Init and Prepare, not while
\* it has announced "Waiting...", not during finalization and the completion
\* callback; a declared step count is set after the lock is taken and before
\* Execute ends; and a task that waits for a lock holds up no other task:
\* every other task inside _ExecuteTask can take its next step unless it
\* waits for a held lock itself.
C27_LockHeldOnlyAroundExecute ==
    \A i \in TaskIds :
       /\ tasks[i].execution_lock # NoLock
          => /\ lock_holder[tasks[i].execution_lock] = i <=> pc[i] = "execute"
             /\ (pc[i] = "lock" /\ num_steps[i] # NoneInt)
                => internal_status[i].num_steps = NoneInt
             /\ (pc[i] = "execute" /\ num_steps[i] # NoneInt
                 /\ args.experience_type = "ProgressBar")
                => internal_status[i].num_steps = num_steps[i]
       /\ (pc[i] \in {"init", "prepare", "lock", "execute", "callback", "report"}
           /\ ~(pc[i] = "lock" /\ ~LockFree(tasks[i].execution_lock)))
          => ENABLED RunnerStep(i)

\* C27 happens: a task waits for the lock a second task holds inside
\* Execute, a third task that used the same lock is at its completion
\* callback, and the waiting task has declared a step count not yet set.
C27_Witness ==
    \E i, j \in TaskIds :
        /\ i # j
        /\ tasks[i].execution_lock # NoLock
        /\ tasks[j].execution_lock = tasks[i].execution_lock
        /\ pc[i] = "execute"
        /\ lock_holder[tasks[i].execution_lock] = i
        /\ pc[j] = "lock"
        /\ num_steps[j] = NumSteps
        /\ internal_status[j].num_steps = NoneInt

\* C28: the lock a task holds inside Execute is free again when the outcome
\* of Execute has been classified, whether Execute returned or raised; and in
\* a batch of ExecuteTasks, with any number of threads, a task that waits for
\* an execution_lock acquires it in the end and completes: its completion
\* callback runs and the runner returns.
C28_LockedTasksComplete ==
    /\ [](\A i \in TaskIds :
             (tasks[i].execution_lock # NoLock /\ Handled(i))
             => lock_holder[tasks[i].execution_lock] # i)
    /\ \A i \in 0 .. MaxTasks - 1 :
          (args.entry = "ExecuteTasks" /\ i \in TaskIds /\ pc[i] = "lock")
          ~> (i \in TaskIds /\ pc[i] = "done" /\ callbacks[i] = 1)

\* C28 happens: a task whose Execute raised under a lock has completed, the
\* lock is held by a second task, and a third task waits for it.
C28_Witness ==
    \E i, j, k \in TaskIds :
        /\ args.entry = "ExecuteTasks"
        /\ tasks[i].execution_lock # NoLock
        /\ tasks[j].execution_lock = tasks[i].execution_lock
        /\ tasks[k].execution_lock = tasks[i].execution_lock
        /\ thrown[i] = [kind |-> "Exception", in |-> "Execute"]
        /\ pc[i] = "done"
        /\ pc[j] = "execute"
        /\ lock_holder[tasks[j].execution_lock] = j
        /\ pc[k] = "lock"

\* C29: when the completion callback runs for a task, the task's result,
\* short_desc, log_filename and execution_time are assigned, and the
\* aggregator's read of task_data.result does not fail.
C29_CallbackSeesCompleteRecord ==
    \A i \in TaskIds :
        (pc[i] = "callback" \/ callbacks[i] > 0)
        => /\ AssignedFields \subseteq tasks[i].attrs
           /\ pending[i] \notin {"AssertionError", "AttributeError"}

\* C30: when the body of a YieldQueueExecutor block raises, every worker
\* thread leaves its loop in the end and the context manager's exit comes
\* back, raising the body's exception.
C30_RaisingBodyTerminates ==
    (args.entry = "YieldQueueExecutor" /\ main.pc = "shutdown")
    ~> (/\ main.pc = "raised"
        /\ main.exception = "Exception"
        /\ \A t \in DOMAIN worker : worker[t].state = "exited")

\* C31: a call of ExecuteTasks or TransformTasksEx with an empty task list
\* returns: it raises nothing, TransformTasksEx returns the empty list, the
\* three counters are 0 and the run-level result is 0.
C31_EmptyBatchReturns ==
    (args.entry \in {"ExecuteTasks", "TransformTasksEx"} /\ NumTasks = 0
     /\ Finished)
    => /\ main.pc = "returned"
       /\ main.exception = "None"
       /\ main.value = << >>
       /\ success_count = 0 /\ warning_count = 0 /\ error_count = 0
       /\ execute_dm = 0
       /\ dm = 0

\* The result code _ExecuteTask gives a task whose Execute does o on the
\* handle of experience e, after a Prepare that declared n steps.
ResultUnder(e, o, n, display) ==
    LET fresh == [num_steps |-> NoneInt]
        status == IF n # NoneInt THEN SetNumStepsOf(e, fresh, n) ELSE fresh
        ex == IF o.ex = "None" THEN StatusCalls(e, status, o) ELSE o.ex
    IN  IF ex = "None" THEN o.code ELSE Classify(ex, display).result

\* C32 as stated: whatever calls Execute makes on its status handle
\* (SetTitle, OnProgress with or without a step index, OnInfo, Log), the
\* task's result code is the same under the Simple and the ProgressBar
\* experience: for a task about to run Execute, every outcome of Execute
\* gives one result under both, and an exception that leaves Execute is one
\* the caller's code raised, never one of the handle.
C32_RendererNeverChangesOutcome ==
    \A i \in TaskIds :
       /\ (args.entry = "ExecuteTasks" /\ pc[i] = "execute")
          => \A o \in args.caller.execute_func :
                ResultUnder("Simple", o, num_steps[i], tasks[i].display)
                = ResultUnder("ProgressBar", o, num_steps[i], tasks[i].display)
       /\ (args.entry = "ExecuteTasks" /\ thrown[i].in = "Execute")
          => thrown[i].kind \in {o.ex : o \in args.caller.execute_func}

\* C33 as stated: under the ProgressBar experience the (success, warning,
\* error) counts written to the 'Total Progress' row never decrease from one
\* update of the row to the next, every triple written is one the three
\* counters had at some moment, and when every task has completed the row
\* shows the final counts.
C33_TotalProgressCounts ==
    args.experience_type = "ProgressBar"
    => /\ (total_progress.status # << >> /\ total_progress.previous # << >>)
          => \A k \in 1 .. 3 :
                total_progress.previous[k] <= total_progress.status[k]
       /\ total_progress.status # << >>
          => total_progress.status \in total_progress.had
       /\ (NumTasks >= 1 /\ \A i \in TaskIds : pc[i] = "done")
          => total_progress.status
               = <<success_count, warning_count, error_count>>

\* C34: under uncompressed dispatch every task's context is the pair
\* (task_index, original context) while the batch runs and only then: when
\* TransformTasksEx has returned or raised, every context is the caller's
\* original one again; under compressed dispatch no context is ever changed.
C34_ContextRestored ==
    args.entry = "TransformTasksEx"
    => \A i \in TaskIds :
          tasks[i].context
          = (IF dispatch.impl = "_TransformNotCompressed" /\ main.pc = "running"
             THEN <<i, <<i>>>> ELSE <<i>>)

\* C34 happens: a batch of several tasks under uncompressed dispatch has
\* raised, after a task ran with its wrapped context, and the three contexts
\* are the original ones.
C34_Witness ==
    /\ args.entry = "TransformTasksEx"
    /\ dispatch.impl = "_TransformNotCompressed"
    /\ main.pc = "raised"
    /\ NumTasks >= 2
    /\ \E i \in TaskIds : runs[i] = 1
    /\ \A i \in TaskIds : tasks[i].context = <<i>>

\* C35: the workers of a YieldQueueExecutor block take the tasks in the
\* order of their Enqueue calls (the body enqueues task 0, then task 1, ...):
\* the queue holds the tasks oldest first, a task has been taken only when
\* every task enqueued before it has been taken, and with a single worker a
\* task has been taken only when every task enqueued before it has completed.
C35_QueueIsFifo ==
    args.entry = "YieldQueueExecutor"
    => /\ \A k, l \in 1 .. Len(queue) : k < l => queue[k] < queue[l]
       /\ \A i, j \in TaskIds :
            (i < j /\ runs[j] >= 1)
            => /\ runs[i] >= 1
               /\ dispatch.max_workers = 1 => pc[i] = "done"

\* C35 happens: the single worker of a block has completed the first of
\* the two tasks the body enqueued and runs the second one.
C35_Witness ==
    /\ args.entry = "YieldQueueExecutor"
    /\ dispatch.max_workers = 1
    /\ NumTasks = MaxQueued
    /\ queue = << >>
    /\ pc[0] = "done"
    /\ pc[1] = "execute"

\* The log file names the tasks of the batch have been given so far.
LogFilenames ==
    {tasks[i].log_filename : i \in {j \in TaskIds : "log_filename" \in tasks[j].attrs}}

\* The log file of each thread of the pool: temp_directory / f"{t:06}.log".
ThreadLogs == {TempLog(t) : t \in DOMAIN worker}

\* C36: under compressed dispatch the tasks' log files are the log files of
\* the threads that run them, at most effective-thread-count names; under
\* uncompressed dispatch task i has the log file of its own index, so that
\* the T names are pairwise distinct; in queue mode the names are those of the
\* pool's threads, as many as the pool has threads.
C36_LogFilesPerDispatch ==
    /\ dispatch.mode = "compressed"
       => /\ LogFilenames \subseteq ThreadLogs
          /\ Cardinality(LogFilenames) <= EffectiveThreads
          /\ \A i \in TaskIds :
                pc[i] \in {"prepare", "execute", "callback", "report"}
                => tasks[i].log_filename = TempLog(ThreadOf(i))
    /\ dispatch.impl = "_TransformNotCompressed"
       => /\ \A i \in TaskIds : "log_filename" \in tasks[i].attrs
                                 => tasks[i].log_filename = TempLog(i)
          /\ \A i, j \in TaskIds :
                (i # j /\ {"log_filename"} \subseteq tasks[i].attrs \cap tasks[j].attrs)
                => tasks[i].log_filename # tasks[j].log_filename
          /\ (\A i \in TaskIds : pc[i] = "done")
             => Cardinality(LogFilenames) = NumTasks
    /\ dispatch.mode = "queue"
       => /\ LogFilenames \subseteq ThreadLogs
          /\ Cardinality(ThreadLogs) = dispatch.max_workers
          /\ dispatch.max_workers
               = QueueThreads(args.max_num_threads, args.cpu_count)

\* C36 happens: two threads have run the three tasks of a compressed batch,
\* each of them at least one, and the three tasks have two log files.
C36_Witness ==
    /\ dispatch.mode = "compressed"
    /\ NumTasks = 3
    /\ \A i \in TaskIds : pc[i] = "done"
    /\ Cardinality(LogFilenames) = 2

\* C37: a transform that returns CompleteTransformResult(value, return_code,
\* short_desc) puts value into the output slot of its task's index, makes
\* return_code the task's result (0 when return_code is None) and short_desc
\* its short description; a transform that returns a plain value gives
\* result 0 and no short description; this with both dispatches; and a batch
\* that came back with every task at the code 12345 has the run result 12345.
C37_CompleteTransformResult ==
    args.entry = "TransformTasksEx"
    => /\ \A i \in TaskIds :
            /\ pc[i] = "execute"
               => \A o \in args.caller.execute_func :
                     o.ex = "None"
                     => LET r == ExecuteTransform(i, o) IN
                        /\ r.ex = "None"
                        /\ r.slots = [all_results EXCEPT ![i] = ValueSlot(2 * i)]
                        /\ r.code = (IF o.kind = "complete" /\ o.code # NoneInt
                                     THEN o.code ELSE 0)
                        /\ r.short_desc = (IF o.kind = "complete"
                                           THEN GivenDesc("short_desc")
                                           ELSE NoneDesc)
            /\ (Handled(i) /\ thrown[i].kind = "none")
               => /\ all_results[i] = ValueSlot(2 * i)
                  /\ tasks[i].result = returned[i]
                  /\ tasks[i].short_desc = NoneDesc => tasks[i].result = 0
       /\ (main.pc = "returned" /\ NumTasks >= 1
           /\ \A i \in TaskIds : tasks[i].result = WarningCode)
          => /\ dm = WarningCode
             /\ main.value = [i \in TaskIds |-> ValueSlot(2 * i)]

\* C37 happens: a compressed batch of three tasks came back after every
\* transform returned a CompleteTransformResult with the code 12345.
C37_Witness ==
    /\ args.entry = "TransformTasksEx"
    /\ dispatch.impl = "_TransformCompressed"
    /\ main.pc = "returned"
    /\ NumTasks = 3
    /\ \A i \in TaskIds : /\ tasks[i].result = WarningCode
                          /\ tasks[i].short_desc = GivenDesc("short_desc")
    /\ dm = WarningCode

\* value without the e characters that follow its first m - floor(e / 2)
\* characters, three dots in their place.
SplicedAround(value, m, e) ==
    SubSeq(value, 1, m - FloorHalf(e)) \o Ellipsis
    \o SubSeq(value, m - FloorHalf(e) + e + 1, Len(value))

\* C38 as stated: when len(value) > length, BoundedLJust removes
\* len(value) - length + 3 characters of value around the split point
\* floor(len(value) / 2), moved one character to the left exactly when
\* len(value) and length have the same parity, and puts three dots there.
C38_SplitPointAndExcess ==
    (bounded.pc \in {"once", "twice"} /\ Len(bounded.value) > bounded.length)
    => LET len_value == Len(bounded.value)
           excess == len_value - bounded.length + 3
           split == IF len_value % 2 = bounded.length % 2
                    THEN FloorHalf(len_value) - 1 ELSE FloorHalf(len_value)
       IN  /\ Len(bounded.result) = len_value - excess + 3
           /\ bounded.result = SplicedAround(bounded.value, split, excess)

====
